---- MODULE Spec2Model ----
(***************************************************************************)
(* A model of atomcam-meteor-detector's stateful pipeline orchestrator     *)
(* (atomcam_meteor/pipeline.py) and of the clip / night-output store it    *)
(* drives (atomcam_meteor/services/db.py).                                 *)
(*                                                                         *)
(* One observation night is modelled.  The camera can hold four clips,     *)
(* spread over the night's hour slots; one of them lies outside the        *)
(* configured start/end boundary.  A pipeline run is a sequence of steps:  *)
(* one per download_hour call, two per clip (the committed upsert, then    *)
(* the detector call with its committed row update), and one for the       *)
(* end-of-night aggregation.                                               *)
(*                                                                         *)
(* Beside the runs there are the rebuild operations, the dashboard's       *)
(* exclusion requests (atomcam_meteor/web/routes.py), the detections       *)
(* table, a pipeline constructed without a store, and the extractor's      *)
(* time-range computation (atomcam_meteor/modules/extractor.py).  Each     *)
(* specification below fixes, in its initial state, which camera, which    *)
(* detector results and how many operations a behaviour has.               *)
(***************************************************************************)
EXTENDS Integers, Sequences, FiniteSets, TLC

\* ------------------------------------------------------------------ bounds
\* Number of pipeline runs (execute and redetect_from_local) started on one store.
MaxRuns == 2
\* Number of execute runs started on one store when only execute runs.
MaxExecRuns == 3
\* Largest line count the detector reports for one clip.
MaxLines == 1
\* Number of direct repository calls in the repository specification.
MaxCalls == 4
\* Longest list of detection groups handed to compute_time_ranges.
MaxGroups == 3
\* Largest detection group index in such a list.
MaxGroupIndex == 4
\* Number of operations on one store when an execute run is followed by the
\* dashboard's exclusion requests, rebuild operations and direct repository calls.
MaxRebuildOps == 4
\* Number of operations on one store when execute runs and rebuild_concatenation mix.
MaxConcatOps == 3
\* Number of operations of a pipeline constructed without a store.
MaxNoStoreOps == 3

\* --------------------------------------------------------------- constants
NULL == "NULL"

PENDING == "pending"
DOWNLOADED == "downloaded"
DETECTED == "detected"
NO_DETECTION == "no_detection"
ERROR == "error"

ClipStatus == {PENDING, DOWNLOADED, DETECTED, NO_DETECTION, ERROR}

\* The three statuses upsert_clip protects and execute's guard skips.
Terminal == {DETECTED, NO_DETECTION, ERROR}

\* The observation night (date_str) and the calendar day before it.
Night == "20250101"
PrevDay == "20241231"

\* schedule.start_time / schedule.end_time as <<hour, minute>>.
StartTime == <<22, 30>>
EndTime == <<1, 0>>
\* The observation window the configuration file sets.
DefaultSchedule == [start_time |-> StartTime, end_time |-> EndTime]

\* The clips the camera can list, in slot order and file-name order within a slot.
Urls == 1 .. 4
ClipDay == <<PrevDay, PrevDay, PrevDay, Night>>
ClipHour == <<22, 22, 22, 0>>
ClipMinute == <<10, 45, 50, 45>>
LocalPath ==
    << "dl/20241231/22/10.mp4", "dl/20241231/22/45.mp4",
       "dl/20241231/22/50.mp4", "dl/20250101/00/45.mp4" >>

\* output_dir / f"{clip_path.stem}_detect.png": named by the minute alone.
DetectImage(u) ==
    CASE ClipMinute[u] = 10 -> "out/10_detect.png"
      [] ClipMinute[u] = 45 -> "out/45_detect.png"
      [] ClipMinute[u] = 50 -> "out/50_detect.png"

\* output_dir / f"{stem}_meteor.mp4": the extracted sub-clip.
MeteorClip(u) ==
    CASE ClipMinute[u] = 10 -> "out/10_meteor.mp4"
      [] ClipMinute[u] = 45 -> "out/45_meteor.mp4"
      [] ClipMinute[u] = 50 -> "out/50_meteor.mp4"

\* output_dir / f"{date_str}_composite.jpg"
CompOut == "out/20250101_composite.jpg"

\* output_dir / f"{date_str}_meteors.mp4"
VidOut == "out/20250101_meteors.mp4"

\* detection_image_path.with_suffix(".masked.png")
MaskedImage(image) ==
    CASE image = "out/10_detect.png" -> "out/10_detect.masked.png"
      [] image = "out/45_detect.png" -> "out/45_detect.masked.png"
      [] image = "out/50_detect.png" -> "out/50_detect.masked.png"

ErrMsg == "Detection failed"

\* A second place a clip file can be at.
MovedPath == "dl/moved.mp4"

\* The clip urls the direct repository calls are made on.
RepoUrls == {2, 3}

\* A camera card holding three of the four clips: 22:10, 22:45 and 00:45.
NightCamera == {1, 2, 4}

\* The callers of the pipeline that enter a FileLock first: the scheduler's
\* worker thread and the commands run and redetect.
LockUsers == {"scheduler", "cli_run", "cli_redetect"}

\* The dashboard's background tasks.
WebTasks == {"web_redetect", "web_rebuild", "web_concatenate"}

Callers == LockUsers \cup WebTasks

\* ------------------------------------------------------------------- state
VARIABLES
    clips,            \* clips table: clip_url -> row (domain = stored urls)
    nights,           \* night_outputs table: date_str -> row
    localFiles,       \* clip files present under the download directory
    compExists,       \* the night's composite file exists on disk
    time_slots,       \* execute: the run's time slots
    pc,               \* position of the running operation
    slotIdx,          \* execute: index of the current time slot
    downloaded,       \* execute: rest of the current slot's download list
    all_mp4_files,    \* redetect: the files counted before the loop
    rdIdx,            \* redetect: number of loop iterations started
    cancel,           \* redetect: "none" (no token), "clear" or "set"
    clips_processed,
    detections_found,
    detected_images,
    new_detected_images,
    result,           \* the PipelineResult last returned
    runs,             \* number of runs started
    runLimit,         \* the number of runs a behaviour may start
    camera,           \* the clips the camera's card holds
    current,          \* the clip upserted and not yet detected: <<url>>, else <<>>
    dlLog,            \* this run: clips the downloader returned
    detLog,           \* this run: detector calls, in order: clip, kind of result,
                      \* and whether the extractor returned sub-clips
    updLog,           \* this run: clips written by update_clip_status
    skipLog,          \* this run: clips skipped by the idempotence guard
    compLog,          \* this run: compositor invocations
    progressLog,      \* this run: progress_callback calls, each <<processed, total>>
    events,           \* this run: events handed to the hooks
    detCount,         \* detector invocations per clip url, over all runs
    atStart,          \* the tables and the composite file as the run found them
    last,             \* the last direct repository call and the row before it
    detection_groups, \* compute_time_ranges: the group indices of the last call
    extractor,        \* compute_time_ranges: exposure, margin and clip duration (ticks)
    time_ranges,      \* compute_time_ranges: the ranges the last call returned
    detections,       \* table detections: rows in the order of their ids
    concatLog,        \* this run: concatenator invocations (lists of sub-clips)
    included,         \* this run: the clips rebuild_composite counted as included
    detector,         \* the detected = True results the detector can return
    db,               \* whether the pipeline was constructed with a store
    opLimit,          \* bound on the operations of any kind within a behaviour
    cap,              \* detect: frames the capture has still to deliver
    fps,              \* detect: the frame rate used (the capture's, or the default)
    frames_per_group, \* detect: frames of one exposure group
    group_gray,       \* detect: grayscale frames held of the group being read
    group_index,      \* detect: index of the group being read
    group_lines,      \* detect: group index -> number of surviving lines, for
                      \* the groups with lines (group_color_comps has the same keys)
    foundLog,         \* this call: lines _find_lines returned, per processed group
    flock,            \* the caller holding the exclusive flock on the lock path, or NULL
    fp,               \* FileLock._fp is set, per caller that uses a FileLock
    at,               \* where each caller of the pipeline is
    outcome,          \* what each caller's last attempt came to
    scheduler_status, \* the scheduler's status (SchedulerStatus)
    schedule,         \* config.schedule: start_time and end_time as <<hour, minute>>
    settings,         \* settings table: schedule key -> <<value>>, <<>> when absent
    scheduler,        \* PipelineScheduler: _task (<<task>>, <<>> for None), _stop_event,
                      \* where the stop call is, and the start calls made
    tasks,            \* the scheduler loop tasks that exist: task -> its position
    routes,           \* web routes: _redetect_status and _redetect_cancel_events of the night
    requests,         \* redetect requests in their worker threads: request -> position
    background_tasks, \* _do_redetect background tasks that exist: task -> position
    dest_files,       \* download directory: clip url -> state of its local file
    download          \* download_clip: the call in progress and the last return

storeVars == <<clips, nights>>
envVars == <<localFiles, compExists>>
loopVars == <<time_slots, slotIdx, downloaded, current, all_mp4_files, rdIdx, cancel>>
countVars == <<clips_processed, detections_found, detected_images, new_detected_images>>
\* What a behaviour fixes at its start.
scopeVars == <<runLimit, camera, detector, db, opLimit, schedule>>
extractorVars == <<detection_groups, extractor, time_ranges>>
detectorVars == <<cap, fps, frames_per_group, group_gray, group_index, group_lines,
                  foundLog>>
\* The state of the modules the pipeline calls.
lockVars == <<flock, fp, at, outcome, scheduler_status>>
moduleVars == <<extractorVars, detectorVars, lockVars>>
\* What the pipeline and the clip repository leave alone.
\* The state of the scheduler and of the services beside the pipeline.
schedulerVars == <<settings, scheduler, tasks>>
webVars == <<routes, requests, background_tasks>>
downloadVars == <<dest_files, download>>
serviceVars == <<schedulerVars, webVars, downloadVars>>
outerVars == <<scopeVars, serviceVars, moduleVars, detections, concatLog, included>>
logVars == <<dlLog, detLog, updLog, skipLog, compLog, progressLog, events>>
vars ==
    << clips, nights, localFiles, compExists, pc, time_slots, slotIdx, downloaded,
       current, dlLog, all_mp4_files, rdIdx, cancel, clips_processed, detections_found,
       detected_images, new_detected_images, result, runs, detLog, updLog,
       skipLog, compLog, progressLog, events, detCount, atStart, last, runLimit,
       camera, detection_groups, extractor, time_ranges, detections, concatLog,
       included, detector, db, opLimit, cap, fps, frames_per_group, group_gray,
       group_index, group_lines, foundLog, flock, fp, at, outcome,
       scheduler_status, schedule, settings, scheduler, tasks, routes, requests,
       background_tasks, dest_files, download >>

\* ------------------------------------------------------------ ClipRepository
\* A freshly inserted row: the columns' defaults of the clips table.
NewClipRow(date_str, hour, minute, local_path, status) ==
    [ date_str |-> date_str, hour |-> hour, minute |-> minute,
      local_path |-> local_path, status |-> status,
      detection_image |-> NULL, detected_video |-> <<>>, line_count |-> 0,
      excluded |-> 0, error_message |-> NULL ]

\* upsert_clip without the CASE on the stored status: the payload's status is
\* always written.
upsert_clip_blind(cl, clip_url, date_str, hour, minute, local_path, status) ==
    IF clip_url \in DOMAIN cl
    THEN [cl EXCEPT
            ![clip_url].local_path = IF local_path # NULL THEN local_path ELSE @,
            ![clip_url].status = status]
    ELSE [u \in DOMAIN cl \cup {clip_url} |->
            IF u = clip_url
            THEN NewClipRow(date_str, hour, minute, local_path, status)
            ELSE cl[u]]

\* upsert_clip as INSERT OR REPLACE: the row is always written afresh.
upsert_clip_replace(cl, clip_url, date_str, hour, minute, local_path, status) ==
    [u \in DOMAIN cl \cup {clip_url} |->
        IF u = clip_url
        THEN NewClipRow(date_str, hour, minute, local_path, status)
        ELSE cl[u]]

\* INSERT ... ON CONFLICT(clip_url) DO UPDATE SET local_path = COALESCE(...),
\* status = CASE WHEN clips.status IN (terminal) THEN clips.status ELSE excluded.status
upsert_clip(cl, clip_url, date_str, hour, minute, local_path, status) ==
    IF clip_url \in DOMAIN cl
    THEN [cl EXCEPT
            ![clip_url].local_path = IF local_path # NULL THEN local_path ELSE @,
            ![clip_url].status = IF @ \in Terminal THEN @ ELSE status]
    ELSE [u \in DOMAIN cl \cup {clip_url} |->
            IF u = clip_url
            THEN NewClipRow(date_str, hour, minute, local_path, status)
            ELSE cl[u]]

\* The columns update_clip_status accepts as keyword arguments.
AllowedExtras == {"detection_image", "detected_video", "line_count", "error_message"}

\* UPDATE clips SET status = ?, <extras> WHERE clip_url = ?
update_clip_status(cl, clip_url, status, kwargs) ==
    IF clip_url \in DOMAIN cl
    THEN [cl EXCEPT ![clip_url] =
            [c \in DOMAIN @ |->
                IF c = "status" THEN status
                ELSE IF c \in DOMAIN kwargs \cap AllowedExtras THEN kwargs[c]
                ELSE @[c]]]
    ELSE cl

\* SELECT * FROM clips WHERE date_str = ? AND status = 'detected'
get_detected_clips(cl, date_str) ==
    {u \in DOMAIN cl : cl[u].date_str = date_str /\ cl[u].status = DETECTED}

\* UPDATE clips SET excluded = ? WHERE id = ?
toggle_excluded(cl, clip_url, excluded) ==
    IF clip_url \in DOMAIN cl
    THEN [cl EXCEPT ![clip_url].excluded = IF excluded THEN 1 ELSE 0]
    ELSE cl

\* ------------------------------------------------------ NightOutputRepository
\* INSERT OR REPLACE INTO night_outputs (date_str, composite_image, concat_video,
\* detection_count, last_updated_at): a stored row of the date is deleted and the
\* new row gets the column default for hidden.
upsert_output(nt, date_str, composite_image, concat_video, detection_count) ==
    [d \in DOMAIN nt \cup {date_str} |->
        IF d = date_str
        THEN [ composite_image |-> composite_image, concat_video |-> concat_video,
               detection_count |-> detection_count, hidden |-> FALSE ]
        ELSE nt[d]]

\* toggle_hidden: UPDATE night_outputs SET hidden = ? WHERE date_str = ?
toggle_hidden(nt, date_str, hidden) ==
    [d \in DOMAIN nt |-> IF d = date_str THEN [nt[d] EXCEPT !.hidden = hidden] ELSE nt[d]]

\* ------------------------------------------------------------------ Pipeline
Minutes(t) == t[1] * 60 + t[2]

\* _clip_in_range: is (hour, minute) inside the observation window?
clip_in_range(hour, minute) ==
    LET clip == hour * 60 + minute
        start == Minutes(schedule.start_time)
        end == Minutes(schedule.end_time)
    IN  IF start >= end
        THEN clip >= start \/ clip < end
        ELSE start <= clip /\ clip < end

\* <<day, h>> for h = lo, lo + 1, ..., hi - 1 (Python's range(lo, hi)).
HourRange(day, lo, hi) ==
    IF hi > lo THEN [i \in 1 .. (hi - lo) |-> <<day, lo + i - 1>>] ELSE <<>>

\* _build_time_slots without the extra hour for a window ending inside an hour.
build_time_slots_floor ==
    LET start_h == schedule.start_time[1]
        end_h == schedule.end_time[1]
    IN  IF Minutes(schedule.start_time) >= Minutes(schedule.end_time)
        THEN HourRange(PrevDay, start_h, 24) \o HourRange(Night, 0, end_h)
        ELSE HourRange(Night, start_h, end_h)

\* _build_time_slots: the (directory_date, hour) pairs of the night.
build_time_slots ==
    LET start_h == schedule.start_time[1]
        end_h == schedule.end_time[1]
        end_h_inclusive == IF schedule.end_time[2] > 0 THEN end_h + 1 ELSE end_h
    IN  IF Minutes(schedule.start_time) >= Minutes(schedule.end_time)
        THEN HourRange(PrevDay, start_h, 24) \o HourRange(Night, 0, end_h_inclusive)
        ELSE HourRange(Night, start_h, end_h_inclusive)

\* Start of a slot, in hours since PrevDay 00:00.
SlotTime(slot) == IF slot[1] = PrevDay THEN slot[2] ELSE 24 + slot[2]

\* _filter_available_slots: drop the slots that start after the wall clock.
filter_available_slots(slots, clock) ==
    SelectSeq(slots, LAMBDA sl : SlotTime(sl) <= clock)

\* The hours at which a run can start: from the hour before the first slot to
\* the last slot's hour.
Clocks ==
    (SlotTime(build_time_slots[1]) - 1) .. SlotTime(build_time_slots[Len(build_time_slots)])

Range(s) == {s[i] : i \in 1 .. Len(s)}

\* The camera's clips of one slot, in file-name order.
SlotClips(slot) ==
    SelectSeq([i \in 1 .. Cardinality(Urls) |-> i],
              LAMBDA u : u \in camera /\ ClipDay[u] = slot[1] /\ ClipHour[u] = slot[2])

\* Every sub-sequence of a sequence of clips, order kept.
SubSeqs(s) ==
    {SelectSeq(s, LAMBDA u : u \in keep) : keep \in SUBSET Range(s)}

\* The detector's results (MeteorDetector.detect): a DetectionError, a result with
\* detected = False (image_path None, line_count 0), or a result with detected =
\* True, whose image_path is always set and whose line_count is at least 1.
DetectorResults ==
    {[kind |-> "raise", line_count |-> 0], [kind |-> "none", line_count |-> 0]}
        \cup detector

\* Results with detected = True: a line count and the indices of the exposure
\* groups that have lines (detection_groups, never empty, ascending).
Hits(line_counts, group_lists) ==
    { [kind |-> "hit", line_count |-> n, detection_groups |-> g] :
        n \in line_counts, g \in group_lists }

\* A detector whose lines all fall into the clip's first exposure group.
FirstGroupDetector == Hits(1 .. MaxLines, {<<0>>})

\* ExtractionError is an AtomcamError, which is what _extract_short_clips
\* catches.
ExtractionErrorIsAtomcamError == TRUE

\* _extract_short_clips storing an empty list when the extractor failed.
extract_short_clips_empty(u, extracted) ==
    IF extracted THEN <<MeteorClip(u)>> ELSE <<>>

\* _extract_short_clips: the JSON list of the extracted sub-clips, or of the
\* original clip when the extractor raised ExtractionError (a detected = True
\* result has groups, so there are time ranges and the extractor is called).
extract_short_clips(u, extracted) ==
    IF extracted THEN <<MeteorClip(u)>> ELSE <<LocalPath[u]>>

\* Compositor.composite raises CompositorError when neither the seed nor any of
\* the images could be read.
composite_raises(image_paths, existing_composite, readable) ==
    /\ existing_composite \notin readable
    /\ \A i \in 1 .. Len(image_paths) : image_paths[i] \notin readable

NoResult ==
    [ op |-> "none", clips_processed |-> 0, detections_found |-> 0,
      composite_path |-> NULL, video_path |-> NULL, dry_run |-> FALSE ]

NoSnapshot == [clips |-> <<>>, nights |-> <<>>, compExists |-> FALSE]

NoCall ==
    [op |-> "none", url |-> 0, local_path |-> NULL, status |-> NULL, before |-> <<>>]

\* Times are counted in ticks of half a second. DetectionConfig's defaults:
\* exposure_duration_sec = 1.0, clip_margin_sec = 0.5; compute_time_ranges'
\* default video_duration_sec = 60.0.
DefaultExtractor ==
    [exposure_duration_sec |-> 2, clip_margin_sec |-> 1, video_duration_sec |-> 120]

InitStore ==
    /\ clips = <<>>
    /\ nights = <<>>
    /\ localFiles = {}
    /\ compExists = FALSE
    /\ time_slots = <<>>
    /\ pc = "idle"
    /\ slotIdx = 0
    /\ downloaded = <<>>
    /\ current = <<>>
    /\ dlLog = {}
    /\ all_mp4_files = <<>>
    /\ rdIdx = 0
    /\ cancel = "none"
    /\ clips_processed = 0
    /\ detections_found = 0
    /\ detected_images = <<>>
    /\ new_detected_images = <<>>
    /\ result = NoResult
    /\ runs = 0
    /\ detLog = <<>>
    /\ updLog = {}
    /\ skipLog = <<>>
    /\ compLog = <<>>
    /\ progressLog = <<>>
    /\ events = <<>>
    /\ detCount = [u \in Urls |-> 0]
    /\ atStart = NoSnapshot
    /\ last = NoCall
    /\ detection_groups = <<>>
    /\ extractor = DefaultExtractor
    /\ time_ranges = <<>>
    /\ cap = 0
    /\ fps = 0
    /\ frames_per_group = 2
    /\ group_gray = 0
    /\ group_index = 0
    /\ group_lines = <<>>
    /\ foundLog = <<>>
    /\ flock = NULL
    /\ fp = [a \in LockUsers |-> FALSE]
    /\ at = [a \in Callers |-> "idle"]
    /\ outcome = [a \in Callers |-> "none"]
    /\ scheduler_status = [pipeline_running |-> FALSE, last_run_result |-> NULL,
                           running |-> FALSE, in_observation_window |-> FALSE]
    /\ settings = [start_time |-> <<>>, end_time |-> <<>>, interval_minutes |-> <<>>]
    /\ scheduler = [task |-> <<>>, stop_event |-> FALSE, stop_call |-> "idle",
                    starts |-> 0]
    /\ tasks = <<>>
    /\ routes = [redetect_status |-> NULL, redetect_cancel_event |-> NULL]
    /\ requests = <<>>
    /\ background_tasks = <<>>
    /\ dest_files = [u \in Urls |-> "absent"]
    /\ download = [at |-> "idle", url |-> <<>>, attempt |-> 0, returned |-> <<>>,
                   calls |-> 0]
    /\ detections = <<>>
    /\ concatLog = <<>>
    /\ included = {}

\* The fresh locals of a run.
BeginRun ==
    /\ runs < runLimit
    /\ runs' = runs + 1
    /\ UNCHANGED <<scopeVars, serviceVars, moduleVars, detections>>
    /\ concatLog' = <<>>
    /\ included' = {}
    /\ clips_processed' = 0
    /\ detections_found' = 0
    /\ detected_images' = <<>>
    /\ new_detected_images' = <<>>
    /\ current' = <<>>
    /\ dlLog' = {}
    /\ detLog' = <<>>
    /\ updLog' = {}
    /\ skipLog' = <<>>
    /\ compLog' = <<>>
    /\ progressLog' = <<>>
    /\ events' = <<>>
    /\ atStart' = [clips |-> clips, nights |-> nights, compExists |-> compExists]

\* execute, dry_run = False: date, directories, the time slots that have begun
\* at the wall clock's hour, empty counters.
ExecuteStart ==
    /\ pc = "idle"
    /\ BeginRun
    /\ pc' = "exec_slot"
    /\ \E clock \in Clocks : time_slots' = filter_available_slots(build_time_slots, clock)
    /\ slotIdx' = 1
    /\ downloaded' = <<>>
    /\ UNCHANGED <<storeVars, envVars, all_mp4_files, rdIdx, cancel, result,
                   detCount, last>>

\* execute, dry_run = True: every slot is only logged; the result is all zero.
ExecuteDryRun ==
    /\ pc = "idle"
    /\ BeginRun
    /\ pc' = "exec_done"
    /\ result' = [ op |-> "execute", clips_processed |-> 0, detections_found |-> 0,
                   composite_path |-> NULL, video_path |-> NULL, dry_run |-> TRUE ]
    /\ UNCHANGED <<storeVars, envVars, time_slots, slotIdx, downloaded, all_mp4_files,
                   rdIdx, cancel, detCount, last>>

\* execute: download_hour for the next slot.  It returns some of the camera's
\* clips of that hour, each then a local file, or raises an AtomcamError, which
\* the slot's handler turns into a download error event.
ExecuteDownloadHour ==
    /\ pc = "exec_slot"
    /\ slotIdx <= Len(time_slots)
    /\ \/ \E dl \in SubSeqs(SlotClips(time_slots[slotIdx])) :
            /\ downloaded' = dl
            /\ dlLog' = dlLog \cup Range(dl)
            /\ localFiles' = localFiles \cup Range(dl)
            /\ pc' = IF dl = <<>> THEN "exec_slot" ELSE "exec_clips"
            /\ slotIdx' = IF dl = <<>> THEN slotIdx + 1 ELSE slotIdx
            /\ UNCHANGED events
       \/ /\ events' = Append(events, [kind |-> "error", stage |-> "download", clip |-> 0])
          /\ slotIdx' = slotIdx + 1
          /\ UNCHANGED <<downloaded, dlLog, localFiles, pc>>
    /\ UNCHANGED <<storeVars, compExists, time_slots, current, all_mp4_files, rdIdx,
                   cancel, countVars, result, runs, detLog, updLog, skipLog, compLog, progressLog,
                   detCount, atStart, last, outerVars>>

\* The full-frame image the detector saves for exposure group gi of a clip
\* (_save_group_composites: <stem>_group<gi>.png).
GroupImage(u, gi) == <<"out", ClipMinute[u], "group", gi>>

NewDetectionRow(clip_id, line_index, crop_image) ==
    [ clip_id |-> clip_id, line_index |-> line_index, crop_image |-> crop_image,
      excluded |-> 0 ]

\* An insert without the conflict clause: always a new row.
upsert_detection_insert(dt, clip_id, line_index, crop_image) ==
    Append(dt, NewDetectionRow(clip_id, line_index, crop_image))

\* DetectionRepository.upsert_detection and each statement of bulk_insert:
\* INSERT ... ON CONFLICT(clip_id, line_index) DO UPDATE SET the coordinates and
\* crop_image; the row's id and excluded flag stay.  The coordinates, which the
\* pipeline always writes as zero, are left out.
upsert_detection(dt, clip_id, line_index, crop_image) ==
    IF \E i \in DOMAIN dt : dt[i].clip_id = clip_id /\ dt[i].line_index = line_index
    THEN [ i \in DOMAIN dt |->
             IF dt[i].clip_id = clip_id /\ dt[i].line_index = line_index
             THEN [dt[i] EXCEPT !.crop_image = crop_image]
             ELSE dt[i] ]
    ELSE Append(dt, NewDetectionRow(clip_id, line_index, crop_image))

\* DetectionRepository.bulk_insert: row i of the call gets line_index i,
\* counted from 0 (enumerate); done holds the rows after the first i statements.
RECURSIVE bulk_insert(_, _, _, _)
bulk_insert(done, clip_id, crop_images, i) ==
    IF i >= Len(crop_images) THEN done
    ELSE bulk_insert(upsert_detection(done, clip_id, i, crop_images[i + 1]),
                     clip_id, crop_images, i + 1)

\* Pipeline._save_detections: one row per detection group of a detected = True
\* result, when the clip has a row.
save_detections(dt, cl, u, r) ==
    IF r.kind = "hit" /\ r.detection_groups # <<>> /\ u \in DOMAIN cl
    THEN bulk_insert(dt, u,
                     [i \in DOMAIN r.detection_groups |->
                         GroupImage(u, r.detection_groups[i])], 0)
    ELSE dt

\* DetectionRepository.get_detections_by_clip (ORDER BY line_index; the order
\* plays no part in what the callers compute).
get_detections_by_clip(dt, clip_id) ==
    { i \in DOMAIN dt : dt[i].clip_id = clip_id }

\* store_detection without the write of the error status: a DetectionError leaves
\* the row as the upsert left it.
store_detection_silent(cl, u, r, extracted) ==
    CASE r.kind = "raise" -> cl
      [] r.kind = "hit" ->
            update_clip_status(cl, u, DETECTED,
                [ detection_image |-> DetectImage(u),
                  detected_video |-> extract_short_clips(u, extracted),
                  line_count |-> r.line_count ])
      [] r.kind = "none" ->
            update_clip_status(cl, u, NO_DETECTION, <<>>)

\* The clip-row write that follows one detector call (both run modes): error with
\* the message, detected with image, sub-clip list and line count, or no_detection.
store_detection(cl, u, r, extracted) ==
    CASE r.kind = "raise" ->
            update_clip_status(cl, u, ERROR, [error_message |-> ErrMsg])
      [] r.kind = "hit" ->
            update_clip_status(cl, u, DETECTED,
                [ detection_image |-> DetectImage(u),
                  detected_video |-> extract_short_clips(u, extracted),
                  line_count |-> r.line_count ])
      [] r.kind = "none" ->
            update_clip_status(cl, u, NO_DETECTION, <<>>)

\* The events one detector call leads to.
detection_events(u, r) ==
    CASE r.kind = "raise" -> <<[kind |-> "error", stage |-> "detection", clip |-> u]>>
      [] r.kind = "hit" -> <<[kind |-> "detection", stage |-> "detection", clip |-> u]>>
      [] r.kind = "none" -> <<>>

\* NightCompleteEvent(detection_count, video_path) as the hooks get it.
night_complete(detection_count, video_path) ==
    [ kind |-> "night_complete", stage |-> "", clip |-> detection_count,
      video_path |-> video_path ]

\* The guard skipping only clips already detected.
guard_skips_detected(existing) == existing.status = DETECTED

\* The idempotence guard of execute: the stored row is already terminal.
guard_skips(existing) == existing.status \in Terminal

\* The guard never re-counting a skipped clip.
guard_recounts_never(existing) == FALSE

\* The guard's re-count of an already detected clip that has a detection image.
guard_recounts(existing) ==
    existing.status = DETECTED /\ existing.detection_image # NULL

\* The loop of execute moves on: to the next clip of the list or the next slot.
ExecuteAdvance ==
    /\ pc' = IF downloaded' = <<>> THEN "exec_slot" ELSE "exec_clips"
    /\ slotIdx' = IF downloaded' = <<>> THEN slotIdx + 1 ELSE slotIdx

\* execute: the next clip of the slot's download list, up to the detector call:
\* the range filter, the count, the upsert (committed) and the idempotence guard.
ExecuteClip ==
    /\ pc = "exec_clips"
    /\ LET u == Head(downloaded)
           hour == time_slots[slotIdx][2]
           minute == ClipMinute[u]
           upserted == upsert_clip(clips, u, Night, hour, minute, LocalPath[u], DOWNLOADED)
           existing == upserted[u]
       IN  IF ~clip_in_range(hour, minute)
           THEN /\ downloaded' = Tail(downloaded)
                /\ ExecuteAdvance
                /\ UNCHANGED <<clips, current, countVars, skipLog>>
           ELSE /\ clips_processed' = clips_processed + 1
                /\ clips' = IF db THEN upserted ELSE clips
                /\ IF db /\ guard_skips(existing)
                   THEN /\ skipLog' = Append(skipLog, u)
                        /\ IF guard_recounts(existing)
                           THEN /\ detected_images' =
                                     Append(detected_images, existing.detection_image)
                                /\ detections_found' = detections_found + 1
                           ELSE UNCHANGED <<detected_images, detections_found>>
                        /\ downloaded' = Tail(downloaded)
                        /\ ExecuteAdvance
                        /\ UNCHANGED <<current, new_detected_images>>
                   ELSE /\ current' = <<u>>
                        /\ pc' = "exec_detect"
                        /\ UNCHANGED <<downloaded, slotIdx, skipLog, detections_found,
                                       detected_images, new_detected_images>>
    /\ UNCHANGED <<nights, envVars, time_slots, all_mp4_files, rdIdx, cancel, result,
                   runs, dlLog, detLog, updLog, compLog, progressLog, events, detCount, atStart,
                   last, outerVars>>

\* execute: the detector call on the clip just upserted, and what follows it:
\* the clip-row write (committed), the counters and the event.
ExecuteDetect ==
    /\ pc = "exec_detect"
    /\ LET u == current[1]
       IN  \E r \in DetectorResults :
           \E extracted \in (IF r.kind = "hit" /\ ExtractionErrorIsAtomcamError
                             THEN BOOLEAN ELSE {r.kind = "hit"}) :
              /\ clips' = IF db THEN store_detection(clips, u, r, extracted) ELSE clips
              /\ detections' = IF db THEN save_detections(detections, clips', u, r)
                                ELSE detections
              /\ detLog' = Append(detLog, [clip |-> u, kind |-> r.kind,
                                           extracted |-> extracted])
              /\ detCount' = [detCount EXCEPT ![u] = @ + 1]
              /\ updLog' = IF db THEN updLog \cup {u} ELSE updLog
              /\ events' = events \o detection_events(u, r)
              /\ IF r.kind = "hit"
                 THEN /\ detections_found' = detections_found + 1
                      /\ detected_images' = Append(detected_images, DetectImage(u))
                      /\ new_detected_images' =
                            Append(new_detected_images, DetectImage(u))
                 ELSE UNCHANGED <<detections_found, detected_images,
                                  new_detected_images>>
    /\ current' = <<>>
    /\ downloaded' = Tail(downloaded)
    /\ ExecuteAdvance
    /\ UNCHANGED <<nights, envVars, time_slots, all_mp4_files, rdIdx, cancel,
                   clips_processed, result, runs, dlLog, skipLog, compLog, progressLog,
                   atStart, last, scopeVars, serviceVars, moduleVars, concatLog, included>>

\* The outcomes of one compositor call: does it raise, over every choice of the
\* files that can be read.
composite_outcomes(image_paths, existing_composite) ==
    { composite_raises(image_paths, existing_composite, readable) :
        readable \in SUBSET (Range(image_paths) \cup
                             (IF existing_composite = NULL THEN {} ELSE {existing_composite})) }

\* The detection count as this run's own tally.
cumulative_count_delta(cl) == detections_found

\* The detection count execute and redetect_from_local write to the night's row.
cumulative_count(cl) == Cardinality(get_detected_clips(cl, Night))

\* execute dropping the stored concat_video.
existing_video_none(nt) == NULL

\* The concat_video execute writes back: the stored one.
existing_video(nt) == IF Night \in DOMAIN nt THEN nt[Night].concat_video ELSE NULL

\* The compositor handed every detected image of the run, re-counted ones too.
execute_composite_images_all == detected_images

\* The images execute hands to the compositor.
execute_composite_images == new_detected_images

\* The seed execute hands to the compositor: the composite file, if it exists.
execute_composite_seed == IF compExists THEN CompOut ELSE NULL

\* execute: the end-of-night aggregation, after the last slot.
ExecuteFinalize ==
    /\ pc = "exec_slot"
    /\ slotIdx > Len(time_slots)
    /\ \E composite_path \in {NULL, CompOut} :
          /\ IF execute_composite_images # <<>>
             THEN \E raised \in composite_outcomes(execute_composite_images,
                                                   execute_composite_seed) :
                        /\ compLog' = Append(compLog,
                              [ images |-> execute_composite_images,
                                seed |-> execute_composite_seed ])
                        /\ composite_path = IF raised THEN NULL ELSE CompOut
                        /\ compExists' = IF raised THEN compExists ELSE TRUE
                        /\ events' = (IF raised
                                      THEN Append(events, [kind |-> "error",
                                                           stage |-> "composite", clip |-> 0])
                                      ELSE events)
                                     \o <<night_complete(detections_found, NULL)>>
             ELSE /\ composite_path = IF compExists THEN CompOut ELSE NULL
                  /\ events' = Append(events, night_complete(detections_found, NULL))
                  /\ UNCHANGED <<compLog, compExists>>
          /\ nights' = IF db
                        THEN upsert_output(nights, Night, composite_path,
                                           existing_video(nights), cumulative_count(clips))
                        ELSE nights
          /\ result' = [ op |-> "execute", clips_processed |-> clips_processed,
                         detections_found |-> detections_found,
                         composite_path |-> composite_path, video_path |-> NULL,
                         dry_run |-> FALSE ]
    /\ pc' = "exec_done"
    /\ UNCHANGED <<clips, localFiles, loopVars, countVars, runs, dlLog, detLog,
                   updLog, skipLog, progressLog, detCount, atStart, last, outerVars>>

\* The caller has the result and drops it; the run's locals are gone and the
\* next operation may start.
Return ==
    /\ pc \in {"exec_done", "re_done", "rb_done", "rb_raised"}
    /\ pc' = "idle"
    /\ time_slots' = <<>>
    /\ slotIdx' = 0
    /\ downloaded' = <<>>
    /\ current' = <<>>
    /\ all_mp4_files' = <<>>
    /\ rdIdx' = 0
    /\ cancel' = "none"
    /\ clips_processed' = 0
    /\ detections_found' = 0
    /\ detected_images' = <<>>
    /\ new_detected_images' = <<>>
    /\ result' = NoResult
    /\ dlLog' = {}
    /\ detLog' = <<>>
    /\ updLog' = {}
    /\ skipLog' = <<>>
    /\ compLog' = <<>>
    /\ progressLog' = <<>>
    /\ events' = <<>>
    /\ atStart' = NoSnapshot
    /\ concatLog' = <<>>
    /\ included' = {}
    /\ UNCHANGED <<storeVars, envVars, runs, detCount, last, scopeVars, serviceVars, moduleVars,
                   detections>>

ExecuteNext ==
    \/ ExecuteStart
    \/ ExecuteDryRun
    \/ ExecuteDownloadHour
    \/ ExecuteClip
    \/ ExecuteDetect
    \/ ExecuteFinalize
    \/ Return

InitExecute ==
    /\ InitStore
    /\ runLimit = MaxExecRuns
    /\ camera = Urls
    /\ detector = FirstGroupDetector
    /\ db = TRUE
    /\ opLimit = 0
    /\ schedule = DefaultSchedule

\* Runs of execute alone on one store.
SpecExecute == InitExecute /\ [][ExecuteNext]_vars

\* The local files as the idempotence guard would leave them: only the files
\* whose stored row is not terminal.
local_mp4_files_pending(files) ==
    SelectSeq([i \in 1 .. Cardinality(Urls) |-> i],
              LAMBDA u : /\ u \in files
                         /\ <<ClipDay[u], ClipHour[u]>> \in Range(build_time_slots)
                         /\ clip_in_range(ClipHour[u], ClipMinute[u])
                         /\ ~(u \in DOMAIN clips /\ clips[u].status \in Terminal))

\* redetect_from_local: the local clip files of the night's slots (not filtered by
\* the clock) that lie inside the window, in slot order and sorted by name.
local_mp4_files(files) ==
    SelectSeq([i \in 1 .. Cardinality(Urls) |-> i],
              LAMBDA u : /\ u \in files
                         /\ <<ClipDay[u], ClipHour[u]>> \in Range(build_time_slots)
                         /\ clip_in_range(ClipHour[u], ClipMinute[u]))

\* redetect_from_local: date, directories, slots and the count of matching files.
\* The caller passes a cancel token (the web task) or none (the command line).
RedetectStart ==
    /\ pc = "idle"
    /\ BeginRun
    /\ pc' = "re_clips"
    /\ all_mp4_files' = local_mp4_files(localFiles)
    /\ rdIdx' = 0
    /\ \E token \in {"none", "clear"} : cancel' = token
    /\ UNCHANGED <<storeVars, envVars, time_slots, slotIdx, downloaded, result,
                   detCount, last>>

\* The holder of the cancel token sets it while the run is in its loop.
CancelRedetect ==
    /\ pc \in {"re_clips", "re_detect"}
    /\ cancel = "clear"
    /\ cancel' = "set"
    /\ UNCHANGED <<storeVars, envVars, pc, time_slots, slotIdx, downloaded, current,
                   all_mp4_files, rdIdx, countVars, result, runs, logVars, detCount,
                   atStart, last, outerVars>>

\* The loop never looking at the token.
cancel_ignored == FALSE

\* redetect_from_local checks the token at the top of each loop iteration.
cancel_observed == cancel = "set"

\* redetect_from_local: one loop iteration up to the detector call, for the next
\* file of all_mp4_files: the cancel check, the count and the upsert (committed).
RedetectClip ==
    /\ pc = "re_clips"
    /\ rdIdx < Len(all_mp4_files)
    /\ ~cancel_observed
    /\ LET u == all_mp4_files[rdIdx + 1]
       IN  /\ rdIdx' = rdIdx + 1
           /\ clips_processed' = clips_processed + 1
           /\ clips' = IF db
                       THEN upsert_clip(clips, u, Night, ClipHour[u], ClipMinute[u],
                                        LocalPath[u], DOWNLOADED)
                       ELSE clips
           /\ current' = <<u>>
    /\ pc' = "re_detect"
    /\ UNCHANGED <<nights, envVars, time_slots, slotIdx, downloaded, all_mp4_files,
                   cancel, detections_found, detected_images, new_detected_images,
                   result, runs, logVars, detCount, atStart, last, outerVars>>

\* A variant of progress_callback that is not called when the detector raised.
progress_callback_unless_raised(r) ==
    IF r.kind = "raise" THEN <<>> ELSE << <<clips_processed, Len(all_mp4_files)>> >>

\* redetect_from_local: the calls of progress_callback for one clip whose
\* detector result is r: one call (clips_processed, total), in the except branch
\* and at the end of the loop body alike; total is len(all_mp4_files).
progress_callback(r) ==
    << <<clips_processed, Len(all_mp4_files)>> >>

\* redetect_from_local: the detector call on the file just upserted, and what
\* follows it: the clip-row write (committed), the counters and the event.
RedetectDetect ==
    /\ pc = "re_detect"
    /\ LET u == current[1]
       IN  \E r \in DetectorResults :
           \E extracted \in (IF r.kind = "hit" /\ ExtractionErrorIsAtomcamError
                             THEN BOOLEAN ELSE {r.kind = "hit"}) :
              /\ clips' = IF db THEN store_detection(clips, u, r, extracted) ELSE clips
              /\ detections' = IF db THEN save_detections(detections, clips', u, r)
                                ELSE detections
              /\ detLog' = Append(detLog, [clip |-> u, kind |-> r.kind,
                                           extracted |-> extracted])
              /\ detCount' = [detCount EXCEPT ![u] = @ + 1]
              /\ updLog' = IF db THEN updLog \cup {u} ELSE updLog
              /\ events' = events \o detection_events(u, r)
              /\ IF r.kind = "hit"
                 THEN /\ detections_found' = detections_found + 1
                      /\ detected_images' = Append(detected_images, DetectImage(u))
                 ELSE UNCHANGED <<detections_found, detected_images>>
              /\ progressLog' = progressLog \o progress_callback(r)
    /\ current' = <<>>
    /\ pc' = "re_clips"
    /\ UNCHANGED <<nights, envVars, time_slots, slotIdx, downloaded, all_mp4_files,
                   rdIdx, cancel, clips_processed, new_detected_images, result, runs,
                   dlLog, skipLog, compLog, atStart, last, scopeVars, serviceVars, moduleVars,
                   concatLog, included>>

\* A cancelled run dropping what it detected instead of compositing it.
redetect_composite_images_unless_cancelled ==
    IF cancel_observed THEN <<>> ELSE detected_images

\* redetect_from_local: the images handed to the compositor after the loop, the
\* run's detected images, whether the loop ended or was left by the cancel check.
redetect_composite_images == detected_images

\* redetect_from_local: after the loop ended or was left by the cancel check.
RedetectFinalize ==
    /\ pc = "re_clips"
    /\ rdIdx = Len(all_mp4_files) \/ cancel_observed
    /\ \E composite_path \in {NULL, CompOut} :
          /\ IF redetect_composite_images # <<>>
             THEN \E raised \in composite_outcomes(redetect_composite_images, NULL) :
                        /\ compLog' = Append(compLog,
                              [images |-> redetect_composite_images, seed |-> NULL])
                        /\ composite_path = IF raised THEN NULL ELSE CompOut
                        /\ compExists' = IF raised THEN compExists ELSE TRUE
                        /\ events' = (IF raised
                                      THEN Append(events, [kind |-> "error",
                                                           stage |-> "composite", clip |-> 0])
                                      ELSE events)
                                     \o <<night_complete(detections_found, NULL)>>
             ELSE /\ composite_path = NULL
                  /\ events' = Append(events, night_complete(detections_found, NULL))
                  /\ UNCHANGED <<compLog, compExists>>
          /\ nights' = IF db
                        THEN upsert_output(nights, Night, composite_path, NULL,
                                           cumulative_count(clips))
                        ELSE nights
          /\ result' = [ op |-> "redetect", clips_processed |-> clips_processed,
                         detections_found |-> detections_found,
                         composite_path |-> composite_path, video_path |-> NULL,
                         dry_run |-> FALSE ]
    /\ pc' = "re_done"
    /\ UNCHANGED <<clips, localFiles, loopVars, countVars, runs, dlLog, detLog,
                   updLog, skipLog, progressLog, detCount, atStart, last, outerVars>>

Next ==
    \/ ExecuteStart
    \/ ExecuteDryRun
    \/ ExecuteDownloadHour
    \/ ExecuteClip
    \/ ExecuteDetect
    \/ ExecuteFinalize
    \/ RedetectStart
    \/ CancelRedetect
    \/ RedetectClip
    \/ RedetectDetect
    \/ RedetectFinalize
    \/ Return

\* Runs of execute and redetect_from_local, in any order, on one store, with a
\* camera that recorded one clip before the window's start and one clip in each
\* of two hour slots of the window.
Init ==
    /\ InitStore
    /\ runLimit = MaxRuns
    /\ camera = NightCamera
    /\ detector = FirstGroupDetector
    /\ db = TRUE
    /\ opLimit = 0
    /\ schedule = DefaultSchedule

Spec == Init /\ [][Next]_vars

\* ------------------------------------------------- direct repository calls
\* The stored row of a url as a sequence: empty when there is none.
RowOf(cl, u) == IF u \in DOMAIN cl THEN <<cl[u]>> ELSE <<>>

\* What a direct repository call leaves alone, and its place in the call count.
RepoCall ==
    /\ runs < runLimit
    /\ runs' = runs + 1
    /\ UNCHANGED <<nights, envVars, pc, loopVars, countVars, result, logVars,
                   detCount, atStart, outerVars>>

\* A caller of ClipRepository.upsert_clip, with any payload.
RepoUpsertClip ==
    /\ RepoCall
    /\ \E u \in RepoUrls, status \in ClipStatus :
       \E local_path \in {NULL, LocalPath[u], MovedPath} :
        /\ clips' = upsert_clip(clips, u, Night, ClipHour[u], ClipMinute[u],
                                local_path, status)
        /\ last' = [ op |-> "upsert_clip", url |-> u, local_path |-> local_path,
                     status |-> status, before |-> RowOf(clips, u) ]

\* A caller of ClipRepository.update_clip_status, with the keyword arguments the
\* pipeline passes for each detector result.
RepoUpdateClipStatus ==
    /\ RepoCall
    /\ \E u \in RepoUrls, r \in DetectorResults :
        /\ clips' = store_detection(clips, u, r, TRUE)
        /\ last' = [ op |-> "update_clip_status", url |-> u, local_path |-> NULL,
                     status |-> NULL, before |-> RowOf(clips, u) ]

\* A caller of ClipRepository.toggle_excluded (the dashboard).
RepoToggleExcluded ==
    /\ RepoCall
    /\ \E u \in RepoUrls, excluded \in BOOLEAN :
        /\ clips' = toggle_excluded(clips, u, excluded)
        /\ last' = [ op |-> "toggle_excluded", url |-> u, local_path |-> NULL,
                     status |-> NULL, before |-> RowOf(clips, u) ]

RepoNext ==
    \/ RepoUpsertClip
    \/ RepoUpdateClipStatus
    \/ RepoToggleExcluded

InitRepo ==
    /\ InitStore
    /\ runLimit = MaxCalls
    /\ camera = Urls
    /\ detector = FirstGroupDetector
    /\ db = TRUE
    /\ opLimit = 0
    /\ schedule = DefaultSchedule

\* Sequences of at most MaxCalls calls of the clip repository on one store.
SpecRepo == InitRepo /\ [][RepoNext]_vars

\* ------------------------------------------------- the rebuild operations
\* ORDER BY hour, minute
RECURSIVE by_hour_minute(_)
by_hour_minute(S) ==
    IF S = {} THEN <<>>
    ELSE LET first == CHOOSE u \in S : \A v \in S :
                          ClipHour[u] * 60 + ClipMinute[u] <= ClipHour[v] * 60 + ClipMinute[v]
         IN  <<first>> \o by_hour_minute(S \ {first})

\* SELECT * FROM clips WHERE date_str = ? AND status = 'detected' AND excluded = 0
get_included_detected_clips(cl, date_str) ==
    {u \in get_detected_clips(cl, date_str) : cl[u].excluded = 0}

\* UPDATE detections SET excluded = ? WHERE id = ?
toggle_detection_excluded(dt, detection_id, excluded) ==
    [ i \in DOMAIN dt |->
        IF i = detection_id THEN [dt[i] EXCEPT !.excluded = IF excluded THEN 1 ELSE 0]
        ELSE dt[i] ]

\* UPDATE detections SET excluded = ? WHERE clip_id IN (the night's detected clips)
set_all_excluded_by_date(dt, cl, date_str, excluded) ==
    [ i \in DOMAIN dt |->
        IF dt[i].clip_id \in get_detected_clips(cl, date_str)
        THEN [dt[i] EXCEPT !.excluded = IF excluded THEN 1 ELSE 0]
        ELSE dt[i] ]

\* The rows of a clip that are not excluded, and those that are.
included_rows(dt, u) == {i \in get_detections_by_clip(dt, u) : dt[i].excluded = 0}
excluded_rows(dt, u) == {i \in get_detections_by_clip(dt, u) : dt[i].excluded # 0}

\* A rule that looks at the clip's own flag only.
clip_included_by_clip_flag(cl, dt, u) == cl[u].excluded = 0

\* rebuild_composite: is the clip counted (included_clip_count += 1)?  Without
\* rows the clip's own flag decides; with rows, one row that is not excluded.
clip_included(cl, dt, u) ==
    IF get_detections_by_clip(dt, u) = {}
    THEN cl[u].excluded = 0
    ELSE included_rows(dt, u) # {}

\* rebuild_composite: what one clip appends to masked_images: its detection
\* image, or the masked copy when some of its rows are excluded and the image
\* can be read, or nothing.
rebuild_images_of(cl, dt, u, readable) ==
    IF ~clip_included(cl, dt, u) THEN <<>>
    ELSE IF excluded_rows(dt, u) = {} \/ get_detections_by_clip(dt, u) = {}
         THEN <<cl[u].detection_image>>
         ELSE IF cl[u].detection_image \in readable
              THEN <<MaskedImage(cl[u].detection_image)>>
              ELSE <<>>

RECURSIVE rebuild_images(_, _, _, _)
rebuild_images(cl, dt, list, readable) ==
    IF list = <<>> THEN <<>>
    ELSE rebuild_images_of(cl, dt, Head(list), readable)
            \o rebuild_images(cl, dt, Tail(list), readable)

\* rebuild_composite: the night's detected clips that have a detection image.
rebuild_clips(cl) ==
    SelectSeq(by_hour_minute(get_detected_clips(cl, Night)),
              LAMBDA u : cl[u].detection_image # NULL)

\* rebuild_concatenation: the sub-clips of the clips whose own flag is clear.
RECURSIVE concat_paths(_, _)
concat_paths(cl, list) ==
    IF list = <<>> THEN <<>>
    ELSE cl[Head(list)].detected_video \o concat_paths(cl, Tail(list))

\* rebuild_concatenation ignoring the stored composite.
existing_composite_none(nt) == NULL

\* The composite_image rebuild_concatenation writes back: the stored one.
existing_composite(nt) ==
    IF Night \in DOMAIN nt THEN nt[Night].composite_image ELSE NULL

\* rebuild_concatenation: existing.get("detection_count", len(clips))
existing_count(nt, n) ==
    IF Night \in DOMAIN nt THEN nt[Night].detection_count ELSE n

\* The files a rebuild reads: the detection images of the night's clips.
RebuildReadable == SUBSET { clips[u].detection_image : u \in Range(rebuild_clips(clips)) }

\* The body of rebuild_composite, ending at position done with result op.
rebuild_composite_body(done, op) ==
    \E readable \in RebuildReadable :
      LET list == rebuild_clips(clips)
          masked_images == rebuild_images(clips, detections, list, readable)
          written == { MaskedImage(p) : p \in readable }
          included_clip_count ==
              Cardinality({u \in Range(list) : clip_included(clips, detections, u)})
          raised == composite_raises(masked_images, NULL, readable \cup written)
          composite_path == IF masked_images = <<>> \/ raised THEN NULL ELSE CompOut
      IN  /\ included' = {u \in Range(list) : clip_included(clips, detections, u)}
          /\ compLog' = IF masked_images = <<>> THEN compLog
                         ELSE Append(compLog, [images |-> masked_images, seed |-> NULL])
          /\ compExists' = IF composite_path = NULL THEN compExists ELSE TRUE
          /\ nights' = upsert_output(nights, Night, composite_path,
                                     existing_video(nights), included_clip_count)
          /\ result' = [ op |-> op, clips_processed |-> 0,
                         detections_found |-> included_clip_count,
                         composite_path |-> composite_path,
                         video_path |-> existing_video(nights), dry_run |-> FALSE ]
          /\ pc' = done

\* The body of rebuild_concatenation; the concatenator may raise, which is caught.
rebuild_concatenation_body(op) ==
    LET list == by_hour_minute(get_included_detected_clips(clips, Night))
        all_clip_paths == concat_paths(clips, list)
    IN  \E raised \in (IF all_clip_paths = <<>> THEN {TRUE} ELSE BOOLEAN) :
          LET video_path == IF raised THEN NULL ELSE VidOut
          IN  /\ concatLog' = IF all_clip_paths = <<>> THEN concatLog
                               ELSE Append(concatLog, all_clip_paths)
              /\ nights' = upsert_output(nights, Night, existing_composite(nights),
                                         video_path, existing_count(nights, Len(list)))
              /\ result' = [ op |-> op, clips_processed |-> 0,
                             detections_found |-> (IF op = "rebuild_outputs"
                                                   THEN result.detections_found
                                                   ELSE Len(list)),
                             composite_path |-> (IF op = "rebuild_outputs"
                                                 THEN result.composite_path
                                                 ELSE existing_composite(nights)),
                             video_path |-> video_path, dry_run |-> FALSE ]
              /\ pc' = "rb_done"

\* The rebuild operations going on without looking for the store.
no_store_unchecked == FALSE

\* if self._db is None
no_store == ~db

\* A rebuild operation on a pipeline without a store: AtomcamError, at once.
rebuild_raises(op) ==
    /\ result' = [ op |-> op, clips_processed |-> 0, detections_found |-> 0,
                   composite_path |-> NULL, video_path |-> NULL,
                   dry_run |-> FALSE ]
    /\ pc' = "rb_raised"
    /\ UNCHANGED <<nights, compExists, compLog, concatLog, included>>

\* What the rebuild operations leave alone; they note the tables as found.
RebuildCall ==
    /\ atStart' = IF atStart = NoSnapshot
                  THEN [clips |-> clips, nights |-> nights, compExists |-> compExists]
                  ELSE atStart
    /\ UNCHANGED <<clips, localFiles, loopVars, countVars, dlLog, detLog, updLog,
                   skipLog, progressLog, events, detCount, last, scopeVars, serviceVars,
                   moduleVars, detections>>

\* The start of an operation other than a pipeline run: its place in the count.
BeginCall ==
    /\ pc = "idle"
    /\ runs < opLimit
    /\ runs' = runs + 1

\* Pipeline.rebuild_composite
RebuildComposite ==
    /\ BeginCall
    /\ RebuildCall
    /\ IF no_store
       THEN rebuild_raises("rebuild_composite")
       ELSE rebuild_composite_body("rb_done", "rebuild_composite") /\ UNCHANGED concatLog

\* Pipeline.rebuild_concatenation
RebuildConcatenation ==
    /\ BeginCall
    /\ RebuildCall
    /\ IF no_store
       THEN rebuild_raises("rebuild_concatenation")
       ELSE /\ rebuild_concatenation_body("rebuild_concatenation")
            /\ UNCHANGED <<compExists, compLog, included>>

\* Pipeline.rebuild_outputs: rebuild_composite, ...
RebuildOutputs ==
    /\ BeginCall
    /\ RebuildCall
    /\ IF no_store
       THEN rebuild_raises("rebuild_outputs")
       ELSE rebuild_composite_body("rb_outputs", "rebuild_outputs") /\ UNCHANGED concatLog

\* ... then rebuild_concatenation; the result joins the two.
RebuildOutputsConcatenation ==
    /\ pc = "rb_outputs"
    /\ RebuildCall
    /\ UNCHANGED runs
    /\ rebuild_concatenation_body("rebuild_outputs")
    /\ UNCHANGED <<compExists, compLog, included>>

\* What a request of the dashboard that writes one flag leaves alone.
FlagRequest ==
    /\ BeginCall
    /\ UNCHANGED <<nights, envVars, pc, loopVars, countVars, result, logVars,
                   detCount, atStart, last, scopeVars, serviceVars, moduleVars, concatLog,
                   included>>

\* api_toggle_clip: the clip's own flag, nothing else.
ToggleClip ==
    /\ FlagRequest
    /\ \E u \in DOMAIN clips, excluded \in BOOLEAN :
          /\ clips' = toggle_excluded(clips, u, excluded)
    /\ UNCHANGED detections

\* api_toggle_detection: one row's flag, nothing else.
ToggleDetection ==
    /\ FlagRequest
    /\ \E detection_id \in DOMAIN detections, excluded \in BOOLEAN :
          /\ detections' = toggle_detection_excluded(detections, detection_id, excluded)
    /\ UNCHANGED clips

\* api_bulk_detections: every row of the night's detected clips.
BulkDetections ==
    /\ FlagRequest
    /\ \E excluded \in BOOLEAN :
          /\ detections' = set_all_excluded_by_date(detections, clips, Night, excluded)
    /\ UNCHANGED clips

\* A caller of ClipRepository.update_clip_status between the other operations,
\* with the keyword arguments the pipeline passes for each detector result.
UpdateClipStatusCall ==
    /\ FlagRequest
    /\ \E u \in DOMAIN clips, r \in DetectorResults :
          clips' = store_detection(clips, u, r, TRUE)
    /\ UNCHANGED detections

\* The detector results tried here: lines in the first exposure group, in the
\* second, or in both.
GroupChoices == {<<0>>, <<1>>, <<0, 1>>}

\* A caller of DetectionRepository.bulk_insert for a stored clip, with the crop
\* images of any of these results.
BulkInsertCall ==
    /\ FlagRequest
    /\ \E u \in DOMAIN clips, g \in GroupChoices :
          detections' = bulk_insert(detections, u,
                                    [i \in DOMAIN g |-> GroupImage(u, g[i])], 0)
    /\ UNCHANGED clips
RebuildDetector ==
    { [kind |-> "hit", line_count |-> Len(g), detection_groups |-> g] : g \in GroupChoices }

RebuildNext ==
    \/ ExecuteStart
    \/ ExecuteDownloadHour
    \/ ExecuteClip
    \/ ExecuteDetect
    \/ ExecuteFinalize
    \/ Return
    \/ UpdateClipStatusCall
    \/ BulkInsertCall
    \/ ToggleClip
    \/ ToggleDetection
    \/ BulkDetections
    \/ RebuildComposite
    \/ RebuildConcatenation

InitRebuild ==
    /\ InitStore
    /\ runLimit = 1
    /\ camera = RepoUrls
    /\ detector = RebuildDetector
    /\ db = TRUE
    /\ opLimit = MaxRebuildOps
    /\ schedule = DefaultSchedule

\* One execute run on a camera with two clips, then the dashboard's exclusion
\* requests, the rebuild operations and direct calls of update_clip_status.
SpecRebuild == InitRebuild /\ [][RebuildNext]_vars

ConcatNext ==
    \/ ExecuteStart
    \/ ExecuteDryRun
    \/ ExecuteDownloadHour
    \/ ExecuteClip
    \/ ExecuteDetect
    \/ ExecuteFinalize
    \/ Return
    \/ RebuildConcatenation
    \/ RebuildOutputs
    \/ RebuildOutputsConcatenation

InitConcat ==
    /\ InitStore
    /\ runLimit = MaxConcatOps
    /\ camera = RepoUrls
    /\ detector = FirstGroupDetector
    /\ db = TRUE
    /\ opLimit = MaxConcatOps
    /\ schedule = DefaultSchedule

\* Execute runs on a camera with two clips, with rebuild_concatenation and
\* rebuild_outputs between them.
SpecConcat == InitConcat /\ [][ConcatNext]_vars

NoStoreNext ==
    \/ ExecuteStart
    \/ ExecuteDownloadHour
    \/ ExecuteClip
    \/ ExecuteDetect
    \/ ExecuteFinalize
    \/ RedetectStart
    \/ RedetectClip
    \/ RedetectDetect
    \/ RedetectFinalize
    \/ Return
    \/ RebuildComposite
    \/ RebuildConcatenation
    \/ RebuildOutputs

InitNoStore ==
    /\ InitStore
    /\ runLimit = MaxNoStoreOps
    /\ camera = RepoUrls
    /\ detector = FirstGroupDetector
    /\ db = FALSE
    /\ opLimit = MaxNoStoreOps
    /\ schedule = DefaultSchedule

\* The operations of a pipeline constructed without a store (db = None).  Each
\* runs in the caller's thread: a step that can be taken is taken.
SpecNoStore == InitNoStore /\ [][NoStoreNext]_vars /\ WF_vars(NoStoreNext)

\* ------------------------------------------------------------ the extractor
Max(a, b) == IF a >= b THEN a ELSE b
Min(a, b) == IF a <= b THEN a ELSE b

\* The configurations and clip durations tried, in ticks: exposures of 1 s and
\* 2 s, margins of 0 s, 0.5 s and 1.5 s, clips of 3 s, 4 s and 60 s.
Exposures == {2, 4}
Margins == {0, 1, 3}
Durations == {6, 8, 120}
Extractors ==
    [exposure_duration_sec : Exposures, clip_margin_sec : Margins,
     video_duration_sec : Durations]

\* The lists of detection groups tried: any order, repeats allowed.
GroupLists ==
    UNION { [1 .. n -> 0 .. MaxGroupIndex] : n \in 0 .. MaxGroups }

\* sorted(): ascending, repeats kept.
RECURSIVE sorted(_)
sorted(s) ==
    IF s = <<>> THEN <<>>
    ELSE LET least == CHOOSE i \in DOMAIN s : \A j \in DOMAIN s : s[i] <= s[j]
         IN  <<s[least]>> \o
             sorted([k \in 1 .. Len(s) - 1 |-> IF k < least THEN s[k] ELSE s[k + 1]])

\* compute_time_ranges: the padded range of one group, each end clamped on its
\* own: the start from below at 0, the end from above at the clip duration.
raw_range(idx, ex) ==
    << Max(0, idx * ex.exposure_duration_sec - ex.clip_margin_sec),
       Min(ex.video_duration_sec, (idx + 1) * ex.exposure_duration_sec + ex.clip_margin_sec) >>

\* A merge test that leaves exactly adjacent ranges apart.
touches_strictly(start, prev_end) == start < prev_end

\* compute_time_ranges: the test that merges a range into the one before it.
touches(start, prev_end) == start <= prev_end

\* compute_time_ranges: the merge loop over raw[i..], merged holding the result so far.
RECURSIVE merge(_, _, _)
merge(raw, i, merged) ==
    IF i > Len(raw) THEN merged
    ELSE LET prev == merged[Len(merged)]
         IN  IF touches(raw[i][1], prev[2])
             THEN merge(raw, i + 1,
                        [merged EXCEPT ![Len(merged)] = <<prev[1], Max(prev[2], raw[i][2])>>])
             ELSE merge(raw, i + 1, Append(merged, raw[i]))

\* Extractor.compute_time_ranges (fps is not used by the code).
compute_time_ranges(groups, ex) ==
    IF groups = <<>> THEN <<>>
    ELSE LET ordered == sorted(groups)
             raw == [i \in DOMAIN ordered |-> raw_range(ordered[i], ex)]
         IN  merge(raw, 2, <<raw[1]>>)

\* One call of compute_time_ranges.
ComputeTimeRanges ==
    /\ pc = "idle"
    /\ \E groups \in GroupLists, ex \in Extractors :
          /\ detection_groups' = groups
          /\ extractor' = ex
          /\ time_ranges' = compute_time_ranges(groups, ex)
    /\ pc' = "ranges_done"
    /\ UNCHANGED <<storeVars, envVars, loopVars, countVars, result, runs, logVars,
                   detCount, atStart, last, scopeVars, serviceVars, detections, concatLog,
                   included, detectorVars, lockVars>>

\* The caller has the ranges and drops them.
ExtractorReturn ==
    /\ pc = "ranges_done"
    /\ pc' = "idle"
    /\ detection_groups' = <<>>
    /\ extractor' = DefaultExtractor
    /\ time_ranges' = <<>>
    /\ UNCHANGED <<storeVars, envVars, loopVars, countVars, result, runs, logVars,
                   detCount, atStart, last, scopeVars, serviceVars, detections, concatLog,
                   included, detectorVars, lockVars>>

RangesNext ==
    \/ ComputeTimeRanges
    \/ ExtractorReturn

InitRanges ==
    /\ InitStore
    /\ runLimit = 0
    /\ camera = {}
    /\ detector = {}
    /\ db = TRUE
    /\ opLimit = 0
    /\ schedule = DefaultSchedule

\* Calls of compute_time_ranges, one after the other.
SpecRanges == InitRanges /\ [][RangesNext]_vars

\* ---------------------------------------------------------- MeteorDetector
\* The most frames a clip delivers, and the most lines one group yields.
MaxFrames == 9
MaxFound == 2

\* The capture's frame rates (0: not known), with exposure_duration_sec = 1.
FpsChoices == {0, 1, 2, 3}
DefaultFps == 15
exposure_duration_sec == 1

\* _detect_impl: fps <= 0 is replaced by the default.
fps_used(cap_fps) == IF cap_fps <= 0 THEN DefaultFps ELSE cap_fps

\* _detect_impl: int(fps * exposure_duration_sec), at least 2.
frames_per_group_of(f) ==
    IF f * exposure_duration_sec < 2 THEN 2 ELSE f * exposure_duration_sec

\* The clip whose file is read.
DetectedClip == 2

\* A DetectionResult with detected = False; the lines field is left out of
\* the results, line_count is its length.
NotDetected(f) ==
    [ detected |-> FALSE, line_count |-> 0, image_path |-> NULL,
      detection_groups |-> <<>>, fps |-> f, crop_paths |-> <<>> ]

\* detect and the head of _detect_impl: a capture that is not open gives a
\* result at once; otherwise the frame rate is read and the loop starts.
DetectCall ==
    /\ pc = "idle"
    /\ \E opened \in BOOLEAN, frames \in 0 .. MaxFrames, cap_fps \in FpsChoices :
          IF ~opened
          THEN /\ result' = NotDetected(0)
               /\ pc' = "det_done"
               /\ UNCHANGED <<cap, fps, frames_per_group>>
          ELSE /\ cap' = frames
               /\ fps' = fps_used(cap_fps)
               /\ frames_per_group' = frames_per_group_of(fps_used(cap_fps))
               /\ pc' = "det_read"
               /\ UNCHANGED result
    /\ UNCHANGED <<storeVars, envVars, loopVars, countVars, runs, logVars, detCount,
                   atStart, last, scopeVars, serviceVars, detections, concatLog, included,
                   extractorVars, lockVars, group_gray, group_index, group_lines,
                   foundLog>>

\* One pass of the inner loop: a frame is read and its grayscale copy is
\* appended to group_gray.
DetectReadFrame ==
    /\ pc = "det_read"
    /\ group_gray < frames_per_group
    /\ cap > 0
    /\ cap' = cap - 1
    /\ group_gray' = group_gray + 1
    /\ UNCHANGED <<storeVars, envVars, loopVars, countVars, result, runs, logVars,
                   detCount, atStart, last, scopeVars, serviceVars, detections, concatLog,
                   included, extractorVars, lockVars, pc, fps, frames_per_group,
                   group_index, group_lines, foundLog>>

\* The inner loop ends, the group being full or the capture at its end: with
\* fewer than two frames the outer loop is left, otherwise the group is
\* processed.
DetectEndOfGroup ==
    /\ pc = "det_read"
    /\ group_gray = frames_per_group \/ cap = 0
    /\ pc' = IF group_gray < 2 THEN "det_finish" ELSE "det_diff"
    /\ UNCHANGED <<storeVars, envVars, loopVars, countVars, result, runs, logVars,
                   detCount, atStart, last, scopeVars, serviceVars, detections, concatLog,
                   included, moduleVars>>

\* The pairwise differences of the group, folded into diff_composite, and
\* del group_gray.
DetectDiff ==
    /\ pc = "det_diff"
    /\ group_gray' = 0
    /\ pc' = "det_find"
    /\ UNCHANGED <<storeVars, envVars, loopVars, countVars, result, runs, logVars,
                   detCount, atStart, last, scopeVars, serviceVars, detections, concatLog,
                   included, extractorVars, lockVars, cap, fps, frames_per_group,
                   group_index, group_lines, foundLog>>

\* detection_groups.append(group_index), for a group with lines.
record_group(groups, gi, found) ==
    IF found > 0 THEN Append(groups, gi) ELSE groups

\* group_lines[group_index] = found and group_color_comps[group_index] =
\* group_color_comp, for a group with lines.
keep_group(gl, gi, found) ==
    IF found > 0
    THEN [g \in DOMAIN gl \cup {gi} |-> IF g = gi THEN found ELSE gl[g]]
    ELSE gl

\* _find_lines on the group's diff composite, the group kept if lines
\* survive, the colour composite accumulated, group_index += 1.
DetectFindLines ==
    /\ pc = "det_find"
    /\ \E found \in 0 .. MaxFound :
          /\ detection_groups' = record_group(detection_groups, group_index, found)
          /\ group_lines' = keep_group(group_lines, group_index, found)
          /\ foundLog' = Append(foundLog, found)
    /\ group_index' = group_index + 1
    /\ pc' = "det_read"
    /\ UNCHANGED <<storeVars, envVars, loopVars, countVars, result, runs, logVars,
                   detCount, atStart, last, scopeVars, serviceVars, detections, concatLog,
                   included, extractor, time_ranges, lockVars, cap, fps,
                   frames_per_group, group_gray>>

\* The lines counted as the number of groups with lines.
all_lines_groups(groups, gl) == Len(groups)

\* len(all_lines): the lines of the detection groups, group after group.
RECURSIVE all_lines(_, _)
all_lines(groups, gl) ==
    IF groups = <<>> THEN 0
    ELSE gl[Head(groups)] + all_lines(Tail(groups), gl)

\* _save_group_composites: one file per detection group, in the list's order.
save_group_composites(groups) ==
    [i \in DOMAIN groups |-> GroupImage(DetectedClip, groups[i])]

\* has_frames: set when a group of at least two frames was read, which is
\* when group_index was incremented.
has_frames == group_index > 0

\* The result _detect_impl returns after the loop.
detection_result ==
    IF ~has_frames \/ detection_groups = <<>>
    THEN NotDetected(fps)
    ELSE [ detected |-> TRUE,
           line_count |-> all_lines(detection_groups, group_lines),
           image_path |-> DetectImage(DetectedClip),
           detection_groups |-> detection_groups,
           fps |-> fps,
           crop_paths |-> save_group_composites(detection_groups) ]

\* After the loop: the result is built and detect returns it.
DetectFinish ==
    /\ pc = "det_finish"
    /\ result' = detection_result
    /\ pc' = "det_done"
    /\ UNCHANGED <<storeVars, envVars, loopVars, countVars, runs, logVars, detCount,
                   atStart, last, scopeVars, serviceVars, detections, concatLog, included,
                   moduleVars>>

\* The caller has the result; the call's locals are gone.
DetectReturn ==
    /\ pc = "det_done"
    /\ pc' = "idle"
    /\ result' = NoResult
    /\ cap' = 0
    /\ fps' = 0
    /\ frames_per_group' = 2
    /\ group_gray' = 0
    /\ group_index' = 0
    /\ group_lines' = <<>>
    /\ foundLog' = <<>>
    /\ detection_groups' = <<>>
    /\ UNCHANGED <<storeVars, envVars, loopVars, countVars, runs, logVars, detCount,
                   atStart, last, scopeVars, serviceVars, detections, concatLog, included,
                   extractor, time_ranges, lockVars>>

\* The frame-sized buffers the loop's variables hold between two steps:
\* group_gray, group_color_comp, diff_composite (kept until the next group's
\* differences), color_composite (the first group's composite itself until
\* the second group is accumulated) and group_color_comps.  frame and diff,
\* operands of the step in progress, are not counted.
buffers_held ==
    LET group_color_comp ==
            IF group_gray > 0 \/ pc \in {"det_diff", "det_find"} THEN 1 ELSE 0
        diff_composite == IF pc = "det_find" \/ group_index > 0 THEN 1 ELSE 0
        color_composite ==
            IF group_index = 0 \/ (group_index = 1 /\ 0 \in DOMAIN group_lines)
            THEN 0 ELSE 1
        group_color_comps == Cardinality(DOMAIN group_lines)
    IN  group_gray + group_color_comp + diff_composite + color_composite
          + group_color_comps

DetectNext ==
    \/ DetectCall
    \/ DetectReadFrame
    \/ DetectEndOfGroup
    \/ DetectDiff
    \/ DetectFindLines
    \/ DetectFinish
    \/ DetectReturn

InitDetect ==
    /\ InitStore
    /\ runLimit = 0
    /\ camera = {}
    /\ detector = {}
    /\ db = TRUE
    /\ opLimit = 0
    /\ schedule = DefaultSchedule

\* Calls of MeteorDetector.detect, one after the other.
SpecDetect == InitDetect /\ [][DetectNext]_vars

\* ------------------------------------------------- FileLock and its callers
\* Everything but the lock and the callers' positions.
pipelineVars ==
    <<storeVars, envVars, loopVars, countVars, logVars, pc, result, runs, detCount,
      atStart, last, scopeVars, detections, concatLog, included, extractorVars,
      detectorVars>>

\* FileLock.__enter__ by caller a, with the flock on the path held by fl or by
\* nobody: the file is opened and flock(LOCK_EX | LOCK_NB) either takes the
\* lock or fails at once, in which case the file is closed and LockError is
\* raised.
lock_enter(fl, a) ==
    IF fl = NULL
    THEN [flock |-> a, fp |-> TRUE, lock_error |-> FALSE]
    ELSE [flock |-> fl, fp |-> FALSE, lock_error |-> TRUE]

\* __exit__ that unlocks only after a body that did not raise.
lock_exit_unless_raised(fl, held, raised) ==
    IF held /\ ~raised THEN NULL ELSE fl

\* FileLock.__exit__ (called by the with statement also when the body raised):
\* with _fp set the lock is released and the file closed.
lock_exit(fl, held, raised) ==
    IF held THEN NULL ELSE fl

\* _run_pipeline: pipeline_running is set and _execute_pipeline_sync is
\* handed to a worker thread.
RunPipeline ==
    /\ at["scheduler"] = "idle"
    /\ at' = [at EXCEPT !["scheduler"] = "sync"]
    /\ scheduler_status' = [scheduler_status EXCEPT !.pipeline_running = TRUE]
    /\ UNCHANGED <<pipelineVars, serviceVars, flock, fp, outcome>>

\* LockError left to propagate.
on_lock_error_uncaught == "raised"

\* _execute_pipeline_sync: except LockError: return "skipped_lock".
on_lock_error == "skipped_lock"

\* _execute_pipeline_sync: with FileLock(lock_path).
ExecutePipelineSyncEnter ==
    /\ at["scheduler"] = "sync"
    /\ LET e == lock_enter(flock, "scheduler")
       IN  /\ flock' = e.flock
           /\ fp' = [fp EXCEPT !["scheduler"] = e.fp]
           /\ IF e.lock_error
              THEN /\ outcome' = [outcome EXCEPT !["scheduler"] = on_lock_error]
                   /\ at' = [at EXCEPT !["scheduler"] = "back"]
              ELSE /\ at' = [at EXCEPT !["scheduler"] = "block"]
                   /\ UNCHANGED outcome
    /\ UNCHANGED <<pipelineVars, serviceVars, scheduler_status>>

\* The body of a with FileLock block of caller a: the pipeline operation
\* returns or raises, and __exit__ runs.
LockedBody(a) ==
    /\ at[a] = "block"
    /\ \E raised \in BOOLEAN :
          /\ flock' = lock_exit(flock, fp[a], raised)
          /\ outcome' = [outcome EXCEPT ![a] = IF raised THEN "raised" ELSE "completed"]
    /\ fp' = [fp EXCEPT ![a] = FALSE]

\* _execute_pipeline_sync: Pipeline.execute inside the block.
ExecutePipelineSyncBody ==
    /\ LockedBody("scheduler")
    /\ at' = [at EXCEPT !["scheduler"] = "back"]
    /\ UNCHANGED <<pipelineVars, serviceVars, scheduler_status>>

\* _run_pipeline: the worker's result, or "error" after an exception, is
\* stored; the loop then waits for the next cycle.
RunPipelineResult ==
    /\ at["scheduler"] = "back"
    /\ scheduler_status' =
          [ pipeline_running |-> FALSE,
            last_run_result |-> IF outcome["scheduler"] = "raised" THEN "error"
                                ELSE outcome["scheduler"] ]
    /\ at' = [at EXCEPT !["scheduler"] = "idle"]
    /\ UNCHANGED <<pipelineVars, serviceVars, flock, fp, outcome>>

CliCommands == {"cli_run", "cli_redetect"}

\* The commands run and redetect: with FileLock(...), LockError not caught.
CliEnter(c) ==
    /\ at[c] = "idle"
    /\ LET e == lock_enter(flock, c)
       IN  /\ flock' = e.flock
           /\ fp' = [fp EXCEPT ![c] = e.fp]
           /\ IF e.lock_error
              THEN /\ outcome' = [outcome EXCEPT ![c] = "lock_error"]
                   /\ at' = [at EXCEPT ![c] = "exited"]
              ELSE /\ at' = [at EXCEPT ![c] = "block"]
                   /\ UNCHANGED outcome
    /\ UNCHANGED <<pipelineVars, serviceVars, scheduler_status>>

\* The command's pipeline operation inside the block.
CliBody(c) ==
    /\ LockedBody(c)
    /\ at' = [at EXCEPT ![c] = "exited"]
    /\ UNCHANGED <<pipelineVars, serviceVars, scheduler_status>>

\* The command's process is over; the command can be given again.
CliExit(c) ==
    /\ at[c] = "exited"
    /\ at' = [at EXCEPT ![c] = "idle"]
    /\ UNCHANGED <<pipelineVars, serviceVars, flock, fp, outcome, scheduler_status>>

\* _do_redetect, _do_rebuild, _do_concatenate: the store is opened and the
\* pipeline operation starts.
WebTaskStart(t) ==
    /\ at[t] = "idle"
    /\ at' = [at EXCEPT ![t] = "running"]
    /\ UNCHANGED <<pipelineVars, serviceVars, flock, fp, outcome, scheduler_status>>

\* The background task's operation returns or raises.
WebTaskFinish(t) ==
    /\ at[t] = "running"
    /\ \E raised \in BOOLEAN :
          outcome' = [outcome EXCEPT ![t] = IF raised THEN "raised" ELSE "completed"]
    /\ at' = [at EXCEPT ![t] = "idle"]
    /\ UNCHANGED <<pipelineVars, serviceVars, flock, fp, scheduler_status>>

\* The callers that are inside a pipeline operation, which writes to the store.
Writers == {a \in Callers : at[a] \in {"block", "running"}}

LockNext ==
    \/ RunPipeline
    \/ ExecutePipelineSyncEnter
    \/ ExecutePipelineSyncBody
    \/ RunPipelineResult
    \/ \E c \in CliCommands : CliEnter(c)
    \/ \E c \in CliCommands : CliBody(c)
    \/ \E c \in CliCommands : CliExit(c)
    \/ \E t \in WebTasks : WebTaskStart(t)
    \/ \E t \in WebTasks : WebTaskFinish(t)

InitLock ==
    /\ InitStore
    /\ runLimit = 0
    /\ camera = {}
    /\ detector = {}
    /\ db = TRUE
    /\ opLimit = 0
    /\ schedule = DefaultSchedule

\* The scheduler, the commands and the dashboard's tasks side by side.
SpecLock == InitLock /\ [][LockNext]_vars

\* ------------------------------------------------- order of the highlights
\* The operations of a behaviour: an execute run and a rebuild.
MaxOrderOps == 2

\* A camera card holding an evening clip (22:50) and a morning clip (00:45).
EveningAndMorningCamera == {3, 4}

OrderNext ==
    \/ ExecuteStart
    \/ ExecuteDownloadHour
    \/ ExecuteClip
    \/ ExecuteDetect
    \/ ExecuteFinalize
    \/ Return
    \/ RebuildConcatenation

InitOrder ==
    /\ InitStore
    /\ runLimit = 1
    /\ camera = EveningAndMorningCamera
    /\ detector = FirstGroupDetector
    /\ db = TRUE
    /\ opLimit = MaxOrderOps
    /\ schedule = DefaultSchedule

\* One execute run over a night with clips on both sides of midnight, then
\* rebuild_concatenation.
SpecOrder == InitOrder /\ [][OrderNext]_vars

\* ------------------------------------------------------- the hidden flag
\* The operations of any kind a behaviour with toggle_hidden may make.
MaxHiddenOps == 3

\* A caller of NightOutputRepository.toggle_hidden for the night.
ToggleHidden ==
    /\ BeginCall
    /\ \E hidden \in BOOLEAN :
          /\ nights' = toggle_hidden(nights, Night, hidden)
          /\ last' = [op |-> "toggle_hidden", url |-> 0, local_path |-> NULL,
                      status |-> NULL,
                      before |-> IF Night \in DOMAIN nights THEN <<nights[Night]>>
                                 ELSE <<>>,
                      hidden |-> hidden]
    /\ UNCHANGED <<clips, envVars, pc, loopVars, countVars, result, logVars, detCount,
                   atStart, outerVars>>

HiddenNext ==
    \/ ExecuteStart
    \/ ExecuteDownloadHour
    \/ ExecuteClip
    \/ ExecuteDetect
    \/ ExecuteFinalize
    \/ RedetectStart
    \/ RedetectClip
    \/ RedetectDetect
    \/ RedetectFinalize
    \/ Return
    \/ RebuildComposite
    \/ RebuildConcatenation
    \/ ToggleHidden

InitHidden ==
    /\ InitStore
    /\ runLimit = MaxHiddenOps
    /\ camera = RepoUrls
    /\ detector = FirstGroupDetector
    /\ db = TRUE
    /\ opLimit = MaxHiddenOps
    /\ schedule = DefaultSchedule

\* Pipeline operations on a camera with two clips, with calls of toggle_hidden
\* between them.
SpecHidden == InitHidden /\ [][HiddenNext]_vars

\* ------------------------------------------------------- observation window
Hours == 0 .. 23
\* The minutes a configured time is drawn from.
WindowMinutes == {0, 30}
Times == Hours \X WindowMinutes
Schedules == [start_time : Times, end_time : Times]
\* The minutes a clip's file name is drawn from.
FileMinutes == {0, 1, 29, 30, 31, 59}

\* execute, redetect_from_local: the slots of the night are built.
BuildTimeSlots ==
    /\ pc = "idle"
    /\ time_slots' = build_time_slots
    /\ pc' = "slots_built"
    /\ UNCHANGED <<storeVars, envVars, slotIdx, downloaded, current, all_mp4_files,
                   rdIdx, cancel, countVars, result, runs, logVars, detCount,
                   atStart, last, outerVars>>

\* The slots go out of scope.
DropTimeSlots ==
    /\ pc = "slots_built"
    /\ time_slots' = <<>>
    /\ pc' = "idle"
    /\ UNCHANGED <<storeVars, envVars, slotIdx, downloaded, current, all_mp4_files,
                   rdIdx, cancel, countVars, result, runs, logVars, detCount,
                   atStart, last, outerVars>>

SlotsNext ==
    \/ BuildTimeSlots
    \/ DropTimeSlots

InitSlots ==
    /\ InitStore
    /\ runLimit = 0
    /\ camera = {}
    /\ detector = {}
    /\ db = TRUE
    /\ opLimit = 0
    /\ schedule \in Schedules

\* The slot list of one configured window, any valid window.
SpecSlots == InitSlots /\ [][SlotsNext]_vars

\* -------------------------------------------------------- PipelineScheduler
\* The start calls a behaviour may make.
MaxStarts == 3
\* The times the dashboard is used to save, the intervals, and the wall clock.
SettingTimes == {<<22, 0>>, <<22, 30>>}
Intervals == {0, 60}
Nows == {<<23, 0>>, <<1, 30>>, <<12, 0>>}

\* A value or none.
Optional(S) == {<<>>} \cup {<<x>> : x \in S}

\* resolve_schedule with both modes fixed: the stored key, else the file's value.
resolve_schedule(st, yaml_schedule) ==
    [start_time |-> IF st.start_time # <<>> THEN st.start_time[1]
                    ELSE yaml_schedule.start_time,
     end_time |-> IF st.end_time # <<>> THEN st.end_time[1]
                  ELSE yaml_schedule.end_time]

\* _is_in_observation_window
is_in_observation_window(now, start_time, end_time) ==
    LET current_min == Minutes(now)
        start == Minutes(start_time)
        end == Minutes(end_time)
    IN  IF start >= end
        THEN current_min >= start \/ current_min < end
        ELSE start <= current_min /\ current_min < end

\* _is_in_active_window: the end is moved by interval minutes, modulo one day.
is_in_active_window(now, start_time, end_time, interval) ==
    LET current_min == Minutes(now)
        start == Minutes(start_time)
        end == (Minutes(end_time) + interval) % (24 * 60)
    IN  IF start >= end
        THEN current_min >= start \/ current_min < end
        ELSE start <= current_min /\ current_min < end

\* Where the stop call is once another call has been made.
after_call(stop_call) == IF stop_call = "returned" THEN "idle" ELSE stop_call

\* A start that never finds a task.
task_exists_never(sch) == FALSE

\* start: "if self._task is not None".
task_exists(sch) == sch.task # <<>>

\* A loop task as asyncio.create_task leaves it; cycle holds the locals of the
\* last cycle that resolved its settings.
NewTask == [at |-> "created", cancelled |-> FALSE, cycle |-> <<>>]

\* PipelineScheduler.start (stop_call is "returned" from the return of a stop
\* call to the next call).
SchedulerStart ==
    /\ scheduler.starts < MaxStarts
    /\ IF task_exists(scheduler)
       THEN /\ scheduler' = [scheduler EXCEPT !.starts = @ + 1,
                                              !.stop_call = after_call(@)]
            /\ UNCHANGED <<tasks, scheduler_status>>
       ELSE LET t == scheduler.starts + 1
            IN  /\ scheduler' = [scheduler EXCEPT !.starts = t, !.task = <<t>>,
                                                  !.stop_event = FALSE,
                                                  !.stop_call = after_call(@)]
                /\ scheduler_status' = [scheduler_status EXCEPT !.running = TRUE]
                /\ tasks' = [u \in DOMAIN tasks \cup {t} |->
                                IF u = t THEN NewTask ELSE tasks[u]]
    /\ UNCHANGED <<pipelineVars, webVars, downloadVars, settings, flock, fp, at, outcome>>

\* PipelineScheduler.stop up to "await self._task".
SchedulerStopBegin ==
    /\ scheduler.stop_call # "awaiting"
    /\ IF scheduler.task = <<>>
       THEN /\ scheduler' = [scheduler EXCEPT !.stop_call = "returned"]
            /\ UNCHANGED tasks
       ELSE /\ scheduler' = [scheduler EXCEPT !.stop_event = TRUE,
                                              !.stop_call = "awaiting"]
            /\ tasks' = [u \in DOMAIN tasks |->
                            IF <<u>> = scheduler.task
                            THEN [tasks[u] EXCEPT !.cancelled = TRUE]
                            ELSE tasks[u]]
    /\ UNCHANGED <<pipelineVars, webVars, downloadVars, settings, flock, fp, at, outcome, scheduler_status>>

\* PipelineScheduler.stop once the awaited task has ended.
SchedulerStopFinish ==
    /\ scheduler.stop_call = "awaiting"
    /\ scheduler.task[1] \notin DOMAIN tasks
    /\ scheduler' = [scheduler EXCEPT !.task = <<>>, !.stop_call = "returned"]
    /\ scheduler_status' = [scheduler_status EXCEPT !.running = FALSE]
    /\ UNCHANGED <<pipelineVars, webVars, downloadVars, settings, tasks, flock, fp, at, outcome>>

\* One cycle of _loop, from the test of the stop event to the next await.
\* Without a stored interval the fallback reads a field the configuration does
\* not have: the cycle ends in the handler of the exception, waiting.
LoopCycle(t) ==
    /\ t \in DOMAIN tasks
    /\ tasks[t].at \in {"created", "waiting"}
    /\ ~tasks[t].cancelled
    /\ ~scheduler.stop_event
    /\ IF settings.interval_minutes = <<>>
       THEN /\ tasks' = [tasks EXCEPT ![t].at = "waiting"]
            /\ UNCHANGED scheduler_status
       ELSE \E now \in Nows :
               LET interval == settings.interval_minutes[1]
                   window == resolve_schedule(settings, schedule)
                   in_window == is_in_active_window(now, window.start_time,
                                                    window.end_time, interval)
                   runs_pipeline == interval # 0 /\ in_window
               IN  /\ tasks' = [tasks EXCEPT
                         ![t] = [at |-> IF runs_pipeline THEN "run_pipeline"
                                        ELSE "waiting",
                                 cancelled |-> FALSE,
                                 cycle |-> <<[now |-> now,
                                              start_time |-> window.start_time,
                                              end_time |-> window.end_time,
                                              interval |-> interval]>>]]
                   /\ scheduler_status' =
                         [scheduler_status EXCEPT
                             !.in_observation_window = runs_pipeline,
                             !.pipeline_running = runs_pipeline]
    /\ UNCHANGED <<pipelineVars, webVars, downloadVars, settings, scheduler, flock, fp, at, outcome>>

\* _execute_pipeline_sync in the worker thread: Pipeline(self._config).execute
\* builds the slots of the night.
SchedulerExecutePipeline(t) ==
    /\ t \in DOMAIN tasks
    /\ tasks[t].at = "run_pipeline"
    /\ time_slots' = build_time_slots
    /\ tasks' = [tasks EXCEPT ![t].at = "in_pipeline"]
    /\ UNCHANGED <<webVars, downloadVars, storeVars, envVars, pc, slotIdx, downloaded, current,
                   all_mp4_files, rdIdx, cancel, countVars, result, runs, logVars,
                   detCount, atStart, last, scopeVars, detections, concatLog,
                   included, extractorVars, detectorVars, lockVars, settings,
                   scheduler>>

\* _run_pipeline after the thread has returned.
LoopPipelineDone(t) ==
    /\ t \in DOMAIN tasks
    /\ tasks[t].at = "in_pipeline"
    /\ ~tasks[t].cancelled
    /\ time_slots' = <<>>
    /\ tasks' = [tasks EXCEPT ![t].at = "waiting"]
    /\ scheduler_status' = [scheduler_status EXCEPT !.pipeline_running = FALSE,
                                                    !.last_run_result = "completed"]
    /\ UNCHANGED <<webVars, downloadVars, storeVars, envVars, pc, slotIdx, downloaded, current,
                   all_mp4_files, rdIdx, cancel, countVars, result, runs, logVars,
                   detCount, atStart, last, scopeVars, detections, concatLog,
                   included, extractorVars, detectorVars, flock, fp, at, outcome,
                   settings, scheduler>>

\* The cancelled task gets CancelledError at its await and ends.
LoopCancelled(t) ==
    /\ t \in DOMAIN tasks
    /\ tasks[t].cancelled
    /\ tasks' = [u \in DOMAIN tasks \ {t} |-> tasks[u]]
    /\ scheduler_status' = [scheduler_status EXCEPT !.pipeline_running = FALSE]
    /\ UNCHANGED <<pipelineVars, webVars, downloadVars, settings, scheduler, flock, fp, at, outcome>>

\* PUT /api/settings/schedule: the keys of the body are stored.
ApiPutScheduleSettings ==
    /\ \E items \in [start_time : Optional(SettingTimes),
                     end_time : Optional(SettingTimes),
                     interval_minutes : Optional(Intervals)] :
          /\ \E k \in DOMAIN items : items[k] # <<>>
          /\ settings' =
                [k \in DOMAIN settings |->
                    IF items[k] # <<>> THEN items[k] ELSE settings[k]]
    /\ UNCHANGED <<pipelineVars, webVars, downloadVars, scheduler, tasks, lockVars>>

SchedulerNext ==
    \/ SchedulerStart
    \/ SchedulerStopBegin
    \/ SchedulerStopFinish
    \/ \E t \in 1 .. MaxStarts : LoopCycle(t)
    \/ \E t \in 1 .. MaxStarts : SchedulerExecutePipeline(t)
    \/ \E t \in 1 .. MaxStarts : LoopPipelineDone(t)
    \/ \E t \in 1 .. MaxStarts : LoopCancelled(t)
    \/ ApiPutScheduleSettings

InitScheduler ==
    /\ InitStore
    /\ runLimit = 0
    /\ camera = {}
    /\ detector = {}
    /\ db = TRUE
    /\ opLimit = 0
    /\ schedule = DefaultSchedule

\* The web server's scheduler: start and stop calls, the loop task, and the
\* dashboard saving schedule settings.
SpecScheduler == InitScheduler /\ [][SchedulerNext]_vars

\* ------------------------------------------------------ web re-detection
\* The redetect requests a behaviour may make for the night.
MaxRequests == 3

\* api_redetect, a synchronous route run in a worker thread, up to
\* "current = _redetect_status.get(date_str)".
ApiRedetectRead ==
    /\ Len(requests) < MaxRequests
    /\ requests' = Append(requests, [at |-> "read", current |-> routes.redetect_status,
                                     response |-> NULL])
    /\ UNCHANGED <<pipelineVars, lockVars, schedulerVars, downloadVars, routes,
                   background_tasks>>

\* api_redetect from the test of the status it read: 409, or the status is set
\* to running and _do_redetect is added as a background task.
ApiRedetectRespond(r) ==
    /\ r \in DOMAIN requests
    /\ requests[r].at = "read"
    /\ IF requests[r].current = "running"
       THEN /\ requests' = [requests EXCEPT ![r].at = "done", ![r].response = "409"]
            /\ UNCHANGED <<routes, background_tasks>>
       ELSE /\ requests' = [requests EXCEPT ![r].at = "done",
                                            ![r].response = "started"]
            /\ routes' = [routes EXCEPT !.redetect_status = "running"]
            /\ background_tasks' =
                  [t \in DOMAIN background_tasks \cup {r} |->
                      IF t = r THEN "queued" ELSE background_tasks[t]]
    /\ UNCHANGED <<pipelineVars, lockVars, schedulerVars, downloadVars>>

\* _do_redetect starts: its cancel event replaces the one registered for the date.
DoRedetectStart(t) ==
    /\ t \in DOMAIN background_tasks
    /\ background_tasks[t] = "queued"
    /\ background_tasks' = [background_tasks EXCEPT ![t] = "running"]
    /\ routes' = [routes EXCEPT !.redetect_cancel_event = "clear"]
    /\ UNCHANGED <<pipelineVars, lockVars, schedulerVars, downloadVars, requests>>

\* _progress, called by redetect_from_local after every clip.
DoRedetectProgress(t) ==
    /\ t \in DOMAIN background_tasks
    /\ background_tasks[t] = "running"
    /\ routes.redetect_status # "running"
    /\ routes' = [routes EXCEPT !.redetect_status = "running"]
    /\ UNCHANGED <<pipelineVars, lockVars, schedulerVars, downloadVars, requests,
                   background_tasks>>

\* _do_redetect after redetect_from_local has returned: the final status, and
\* the date's cancel event is removed.
DoRedetectFinish(t) ==
    /\ t \in DOMAIN background_tasks
    /\ background_tasks[t] = "running"
    /\ background_tasks' = [u \in DOMAIN background_tasks \ {t} |-> background_tasks[u]]
    /\ routes' = [redetect_status |-> IF routes.redetect_cancel_event = "set"
                                      THEN "cancelled" ELSE "completed",
                  redetect_cancel_event |-> NULL]
    /\ UNCHANGED <<pipelineVars, lockVars, schedulerVars, downloadVars, requests>>

\* api_redetect_cancel with an event registered (404 without one).
ApiRedetectCancel ==
    /\ routes.redetect_cancel_event = "clear"
    /\ routes' = [routes EXCEPT !.redetect_cancel_event = "set"]
    /\ UNCHANGED <<pipelineVars, lockVars, schedulerVars, downloadVars, requests,
                   background_tasks>>

WebNext ==
    \/ ApiRedetectRead
    \/ \E r \in 1 .. MaxRequests : ApiRedetectRespond(r)
    \/ \E t \in 1 .. MaxRequests : DoRedetectStart(t)
    \/ \E t \in 1 .. MaxRequests : DoRedetectProgress(t)
    \/ \E t \in 1 .. MaxRequests : DoRedetectFinish(t)
    \/ ApiRedetectCancel

InitWeb ==
    /\ InitStore
    /\ runLimit = 0
    /\ camera = {}
    /\ detector = {}
    /\ db = TRUE
    /\ opLimit = 0
    /\ schedule = DefaultSchedule

\* Redetect requests for one night, their background tasks and cancel requests.
\* What redetect_from_local does to the store is left to the pipeline's own
\* specifications.
SpecWeb == InitWeb /\ [][WebNext]_vars

\* --------------------------------------------------------------- Downloader
\* The download_clip calls a behaviour may make.
MaxDownloadCalls == 3
\* CameraConfig.retry_count
retry_count == 3

\* How one attempt can end: the whole body is written; the request fails
\* before the file is opened; the stream breaks after open(local_path, "wb"),
\* before or after the first chunk is written.
AttemptOutcomes == {"ok", "connect_error", "read_error_empty", "read_error_partial"}

\* "local_path.exists() and local_path.stat().st_size > 0"
already_exists(file) == file \in {"partial", "complete"}

\* The local file after an attempt.
file_after(file, ending) ==
    CASE ending = "ok" -> "complete"
      [] ending = "connect_error" -> file
      [] ending = "read_error_empty" -> "empty"
      [] ending = "read_error_partial" -> "partial"

\* download_clip up to the retry loop: a non-empty file at the destination is
\* returned as it is.
DownloadClipCall(u) ==
    /\ download.at = "idle"
    /\ download.calls < MaxDownloadCalls
    /\ download' = IF already_exists(dest_files[u])
                   THEN [at |-> "idle", url |-> <<u>>, attempt |-> 0,
                         returned |-> <<u>>, calls |-> download.calls + 1]
                   ELSE [at |-> "attempting", url |-> <<u>>, attempt |-> 1,
                         returned |-> <<>>, calls |-> download.calls + 1]
    /\ UNCHANGED <<pipelineVars, lockVars, schedulerVars, webVars, dest_files>>

\* One pass of the retry loop: the path is returned, or the next attempt
\* follows, or DownloadError is raised after the last one.
DownloadAttempt ==
    /\ download.at = "attempting"
    /\ \E ending \in AttemptOutcomes :
          LET u == download.url[1]
          IN  /\ dest_files' = [dest_files EXCEPT ![u] = file_after(@, ending)]
              /\ download' =
                    IF ending = "ok"
                    THEN [download EXCEPT !.at = "idle", !.returned = <<u>>]
                    ELSE IF download.attempt < retry_count
                         THEN [download EXCEPT !.attempt = @ + 1]
                         ELSE [download EXCEPT !.at = "idle"]
    /\ UNCHANGED <<pipelineVars, lockVars, schedulerVars, webVars>>

DownloadNext ==
    \/ \E u \in RepoUrls : DownloadClipCall(u)
    \/ DownloadAttempt

InitDownload ==
    /\ InitStore
    /\ runLimit = 0
    /\ camera = {}
    /\ detector = {}
    /\ db = TRUE
    /\ opLimit = 0
    /\ schedule = DefaultSchedule

\* Calls of download_clip for two clips into an empty download directory.
SpecDownload == InitDownload /\ [][DownloadNext]_vars

\* ------------------------------------------------------------------ claims
\* The in-range clips the downloader returned in this run.
InRangeDownloaded ==
    {u \in dlLog : clip_in_range(ClipHour[u], ClipMinute[u])}

\* The clips the detector was called on in this run.
DetectorCalled == {detLog[i].clip : i \in DOMAIN detLog}

\* A non-dry-run execute has returned.
ExecuteReturned == pc = "exec_done" /\ ~result.dry_run

\* C1: upsert_clip on a url that already has a row leaves the row's status at the
\* stored value if that is detected, no_detection or error and at the payload's
\* status otherwise; local_path is the payload's if that is not null, else the
\* stored one; detection_image, detected_video, line_count, error_message and
\* excluded are unchanged.
UpsertClipOnExistingRow ==
    (last.op = "upsert_clip" /\ last.before # <<>>) =>
        LET old == last.before[1]
            new == clips[last.url]
        IN  /\ new.status = IF old.status \in Terminal THEN old.status ELSE last.status
            /\ new.local_path =
                  IF last.local_path # NULL THEN last.local_path ELSE old.local_path
            /\ new.detection_image = old.detection_image
            /\ new.detected_video = old.detected_video
            /\ new.line_count = old.line_count
            /\ new.error_message = old.error_message
            /\ new.excluded = old.excluded

\* An upsert with a non-terminal payload status and a new path has hit a row that
\* was detected, had its detection columns set and was excluded.
UpsertClipOnDetectedRow ==
    /\ last.op = "upsert_clip"
    /\ last.before # <<>>
    /\ last.status = DOWNLOADED
    /\ last.local_path = MovedPath
    /\ last.before[1].status = DETECTED
    /\ last.before[1].detection_image # NULL
    /\ last.before[1].excluded = 1
    /\ last.before[1].local_path # MovedPath

\* C2: over any sequence of execute and redetect_from_local runs on one store, no
\* step takes a clip's stored status from detected, no_detection or error to
\* pending or downloaded.
TerminalStatusNeverRegresses ==
    [][\A u \in DOMAIN clips :
          clips[u].status \in Terminal =>
              /\ u \in DOMAIN clips'
              /\ clips'[u].status \notin {PENDING, DOWNLOADED}]_vars

\* redetect_from_local has upserted, with status downloaded, a clip whose row was
\* error when the run began, and has not yet called the detector on it.
TerminalRowUpsertedAgain ==
    /\ pc = "re_detect"
    /\ current[1] \in DOMAIN atStart.clips
    /\ atStart.clips[current[1]].status = ERROR
    /\ clips[current[1]].status = ERROR

\* C3: in execute, a clip whose stored status is terminal when the run begins is
\* not passed to the detector and its row is not written by update_clip_status
\* (it stays as it was); over any number of execute runs the detector is called
\* at most once per clip url.
TerminalClipNeverRedetected ==
    /\ \A u \in Urls : detCount[u] <= 1
    /\ \A u \in DOMAIN atStart.clips :
          atStart.clips[u].status \in Terminal =>
              /\ u \notin DetectorCalled
              /\ u \notin updLog
              /\ clips[u] = atStart.clips[u]

\* A third execute run has returned after its guard skipped one clip that is
\* stored as error and one stored as no_detection, each detected on once before.
ThirdRunSkippedTerminalClips ==
    /\ ExecuteReturned
    /\ runs = 3
    /\ \E i, j \in DOMAIN skipLog :
          /\ clips[skipLog[i]].status = ERROR
          /\ clips[skipLog[j]].status = NO_DETECTION
          /\ detCount[skipLog[i]] = 1
          /\ detCount[skipLog[j]] = 1

\* C4: when a non-dry-run execute returns, the night's stored detection_count is
\* the number of clips stored for the date with status detected, those of earlier
\* runs that this run did not see included, not this run's own tally.
DetectionCountIsCumulative ==
    ExecuteReturned =>
        /\ Night \in DOMAIN nights
        /\ nights[Night].detection_count =
              Cardinality({u \in DOMAIN clips :
                              clips[u].date_str = Night /\ clips[u].status = DETECTED})

\* An execute run has returned whose downloader returned none of the clips an
\* earlier run detected, and which detected a clip of its own.
CountIncludesUnseenClips ==
    /\ ExecuteReturned
    /\ result.detections_found = 1
    /\ nights[Night].detection_count = 2
    /\ \E u \in DOMAIN atStart.clips :
          atStart.clips[u].status = DETECTED /\ u \notin dlLog

\* C5: when an execute run follows an earlier one and its downloader returns only
\* clips that are already terminal in the store, neither the detector nor the
\* compositor is called, and the night's detection_count and composite_image are
\* after the run what they were before it.
RerunOnTerminalClipsChangesNothing ==
    ( /\ ExecuteReturned
      /\ Night \in DOMAIN atStart.nights
      /\ dlLog # {}
      /\ \A u \in dlLog :
            u \in DOMAIN atStart.clips /\ atStart.clips[u].status \in Terminal )
    => /\ detLog = <<>>
       /\ compLog = <<>>
       /\ nights[Night].detection_count = atStart.nights[Night].detection_count
       /\ nights[Night].composite_image = atStart.nights[Night].composite_image

\* C6: in execute the compositor is called at most once, at the end of the run,
\* with exactly the detection images of the clips this run's detector found a
\* meteor in, in processing order, never one for a clip the guard skipped; the
\* existing composite is the seed exactly when the composite file was on disk.
CompositorGetsNewImagesOnly ==
    /\ pc \in {"exec_slot", "exec_clips", "exec_detect"} => compLog = <<>>
    /\ ExecuteReturned =>
          LET newly == SelectSeq(detLog, LAMBDA e : e.kind = "hit")
          IN  /\ Len(compLog) <= 1
              /\ compLog # <<>> =>
                    /\ compLog[1].images =
                          [i \in 1 .. Len(newly) |-> DetectImage(newly[i].clip)]
                    /\ compLog[1].seed = IF atStart.compExists THEN CompOut ELSE NULL

\* An execute run has returned that skipped a clip stored as detected, detected
\* another one itself and called the compositor with the composite file on disk.
CompositorSeededAfterSkip ==
    /\ ExecuteReturned
    /\ Len(compLog) = 1
    /\ compLog[1].seed = CompOut
    /\ \E i \in DOMAIN skipLog : clips[skipLog[i]].status = DETECTED
    /\ \E i \in DOMAIN detLog : detLog[i].kind = "hit"

\* C7: in execute every in-range clip the downloader returns whose stored status
\* is already detected adds exactly one to detections_found, with no detector
\* call on it: the result's detections_found is the number of such clips plus the
\* number of clips this run's detector found a meteor in.
SkippedDetectedClipsAreCounted ==
    ExecuteReturned =>
        LET already == {u \in InRangeDownloaded :
                           /\ u \in DOMAIN atStart.clips
                           /\ atStart.clips[u].status = DETECTED}
            hits == {i \in DOMAIN detLog : detLog[i].kind = "hit"}
        IN  /\ result.detections_found = Cardinality(already) + Cardinality(hits)
            /\ already \cap DetectorCalled = {}

\* An execute run has returned that was handed two clips already stored as
\* detected and no other clip: it counts two detections without a detector call.
TwoDetectedClipsRecounted ==
    /\ ExecuteReturned
    /\ result.detections_found = 2
    /\ result.clips_processed = 2
    /\ detLog = <<>>
    /\ Cardinality({u \in InRangeDownloaded :
                       u \in DOMAIN atStart.clips
                       /\ atStart.clips[u].status = DETECTED}) = 2

\* C8: in execute a DetectionError on one clip sets that clip's status to error
\* with the message, emits exactly one error event for it, and every other
\* in-range clip the downloader returned, of the same slot and of later slots, is
\* still processed; clips_processed counts the failed clip and all the others.
DetectionErrorIsIsolated ==
    ExecuteReturned =>
        /\ \A i \in DOMAIN detLog :
              detLog[i].kind = "raise" =>
                  LET u == detLog[i].clip
                  IN  /\ clips[u].status = ERROR
                      /\ clips[u].error_message = ErrMsg
                      /\ Cardinality({j \in DOMAIN events :
                                         /\ events[j].kind = "error"
                                         /\ events[j].clip = u}) = 1
        /\ result.clips_processed = Cardinality(InRangeDownloaded)
        /\ InRangeDownloaded = DetectorCalled \cup Range(skipLog)

\* An execute run has returned in which the detector raised on the first clip of
\* a slot and was then called on a later clip of that slot and on a clip of a
\* later slot.
ErrorThenLaterClipsProcessed ==
    /\ ExecuteReturned
    /\ Len(detLog) = 3
    /\ detLog[1].clip = 2
    /\ detLog[1].kind = "raise"
    /\ detLog[2].clip = 3
    /\ detLog[3].clip = 4
    /\ result.clips_processed = 3

\* C9: a redetect_from_local run that is not cancelled calls the detector exactly
\* once on every local clip file inside the night's window, whatever the clip's
\* stored status, calls the downloader not at all, and leaves every such clip,
\* one that was already terminal included, with the status of this run's outcome.
RedetectProcessesEveryLocalClip ==
    (pc = "re_done" /\ cancel # "set") =>
        /\ DetectorCalled = {u \in localFiles : clip_in_range(ClipHour[u], ClipMinute[u])}
        /\ \A i, j \in DOMAIN detLog : detLog[i].clip = detLog[j].clip => i = j
        /\ dlLog = {}
        /\ \A j \in DOMAIN events : events[j].stage # "download"
        /\ \A i \in DOMAIN detLog :
              clips[detLog[i].clip].status =
                  CASE detLog[i].kind = "raise" -> ERROR
                    [] detLog[i].kind = "hit" -> DETECTED
                    [] detLog[i].kind = "none" -> NO_DETECTION

\* A redetect_from_local run has returned that found a meteor in a clip stored
\* as no_detection and none in a clip stored as detected.
RedetectReplacedTerminalStatus ==
    /\ pc = "re_done"
    /\ cancel # "set"
    /\ \E u, v \in DOMAIN atStart.clips :
          /\ atStart.clips[u].status = NO_DETECTION
          /\ clips[u].status = DETECTED
          /\ atStart.clips[v].status = DETECTED
          /\ clips[v].status = NO_DETECTION

\* C10: in redetect_from_local the cancel token is checked before each clip: once
\* the loop is at a clip boundary with the token set, the next step is the run's
\* end, no clip row is written and no detector call made for any remaining clip,
\* and clips_processed is the number of clips started before.
CancelStopsRedetect ==
    [][(pc = "re_clips" /\ cancel = "set") =>
          /\ pc' = "re_done"
          /\ clips' = clips
          /\ detLog' = detLog
          /\ result'.clips_processed = rdIdx
          /\ Len(detLog) = rdIdx]_vars

\* A cancelled redetect_from_local run has returned after it started one clip
\* and left at least one untouched.
RedetectCancelledMidway ==
    /\ pc = "re_done"
    /\ cancel = "set"
    /\ result.clips_processed = 1
    /\ Len(all_mp4_files) > 1
    /\ Len(detLog) = 1

\* C11: during redetect a supplied progress_callback is called exactly once
\* after each clip that was started, also when the detector raised, with
\* (k, total): k counts 1, 2, ... in order and total is the number of local
\* clips found at the start; a clip skipped by cancellation gets no call.
ProgressReportedOncePerStartedClip ==
    pc \in {"re_clips", "re_detect", "re_done"} =>
        LET finished == IF pc = "re_detect" THEN clips_processed - 1
                        ELSE clips_processed
        IN  /\ clips_processed = rdIdx
            /\ finished = Len(detLog)
            /\ progressLog = [k \in 1 .. finished |-> <<k, Len(all_mp4_files)>>]
            /\ all_mp4_files = local_mp4_files(localFiles)

ProgressReportedAfterRaiseAndCancel ==
    /\ pc = "re_done"
    /\ cancel = "set"
    /\ Len(all_mp4_files) = 2
    /\ progressLog = << <<1, 2>> >>
    /\ detLog[1].kind = "raise"

\* The detection images of the clips a run's detector calls reported a hit for,
\* in the order of the calls.
HitImages(log) ==
    LET hits == SelectSeq(log, LAMBDA d : d.kind = "hit")
    IN  [i \in 1 .. Len(hits) |-> DetectImage(hits[i].clip)]

NightCompleteEvents == { j \in DOMAIN events : events[j].kind = "night_complete" }

\* C12: a redetect cancelled after some clips were detected still finalizes:
\* the compositor is called once with the images of exactly the clips detected
\* before the cancellation point, the night's row is upserted and exactly one
\* night-complete event is emitted before the call returns.
CancelledRedetectStillFinalizes ==
    (pc = "re_done" /\ cancel = "set" /\ detections_found > 0) =>
        /\ \A i \in DOMAIN detLog : detLog[i].clip = all_mp4_files[i]
        /\ Len(detLog) = rdIdx
        /\ compLog = << [images |-> HitImages(detLog), seed |-> NULL] >>
        /\ Night \in DOMAIN nights
        /\ nights[Night].composite_image = result.composite_path
        /\ nights[Night].concat_video = NULL
        /\ nights[Night].detection_count = cumulative_count(clips)
        /\ Cardinality(NightCompleteEvents) = 1
        /\ events[Len(events)].kind = "night_complete"

CancelledAfterOneDetection ==
    /\ pc = "re_done"
    /\ cancel = "set"
    /\ rdIdx = 1
    /\ Len(all_mp4_files) = 2
    /\ detections_found = 1
    /\ Len(compLog) = 1

\* The padded interval of a group cut to the clip [0, duration]: its ends, the
\* first after the second when the interval lies outside the clip.
ClampedLow(g) ==
    Max(0, g * extractor.exposure_duration_sec - extractor.clip_margin_sec)
ClampedHigh(g) ==
    Min(extractor.video_duration_sec,
        (g + 1) * extractor.exposure_duration_sec + extractor.clip_margin_sec)

\* C19: compute_time_ranges returns ranges sorted by start, each starting
\* strictly after the one before it ends (overlapping and exactly adjacent
\* padded intervals are merged); the part of every group's padded interval
\* that lies in the clip is inside one returned range; no groups, no ranges.
TimeRangesSortedDisjointCovering ==
    pc = "ranges_done" =>
        /\ (detection_groups = <<>> => time_ranges = <<>>)
        /\ \A i \in 1 .. Len(time_ranges) - 1 :
              /\ time_ranges[i][1] <= time_ranges[i + 1][1]
              /\ time_ranges[i][2] < time_ranges[i + 1][1]
        /\ \A g \in Range(detection_groups) :
              ClampedLow(g) <= ClampedHigh(g) =>
                  \E i \in DOMAIN time_ranges :
                      /\ time_ranges[i][1] <= ClampedLow(g)
                      /\ ClampedHigh(g) <= time_ranges[i][2]

AdjacentGroupsMergedDistantApart ==
    /\ pc = "ranges_done"
    /\ extractor = [exposure_duration_sec |-> 2, clip_margin_sec |-> 0,
                    video_duration_sec |-> 120]
    /\ detection_groups = <<3, 0, 1>>
    /\ time_ranges = << <<0, 4>>, <<6, 8>> >>

\* C20: every range compute_time_ranges returns has
\* 0 <= start <= end <= clip duration, whatever the group indices.
TimeRangesInsideClip ==
    \A i \in DOMAIN time_ranges :
        /\ 0 <= time_ranges[i][1]
        /\ time_ranges[i][1] <= time_ranges[i][2]
        /\ time_ranges[i][2] <= extractor.video_duration_sec

\* The images the compositor was handed in this run.
CompositedImages ==
    UNION { Range(compLog[j].images) : j \in DOMAIN compLog }

RebuildCompositeReturned == pc = "rb_done" /\ result.op = "rebuild_composite"
RebuildConcatenationReturned == pc = "rb_done" /\ result.op = "rebuild_concatenation"

\* C13: in rebuild_composite a detected clip with Detection rows contributes
\* to the composite iff at least one of its rows is not excluded (a clip whose
\* rows are all excluded is omitted entirely), and a detected clip without rows
\* contributes iff its own excluded flag is clear.  A contributing clip is
\* counted, and the compositor gets its detection image, or the masked copy
\* when some of its rows are excluded (nothing when that image cannot be read).
RebuildCompositeExclusionRule ==
    RebuildCompositeReturned =>
        /\ result.detections_found = Cardinality(included)
        /\ \A u \in get_detected_clips(clips, Night) :
              LET rows == { i \in DOMAIN detections : detections[i].clip_id = u }
                  open == { i \in rows : detections[i].excluded = 0 }
                  contributes == IF rows = {} THEN clips[u].excluded = 0 ELSE open # {}
                  image == clips[u].detection_image
              IN  /\ u \in included <=> contributes
                  /\ ~contributes =>
                        CompositedImages \cap {image, MaskedImage(image)} = {}
                  /\ (contributes /\ open = rows) => image \in CompositedImages
                  /\ (contributes /\ open # rows) => image \notin CompositedImages

FullyExcludedClipOmittedRowlessClipKept ==
    /\ RebuildCompositeReturned
    /\ get_detected_clips(clips, Night) = {2, 3}
    /\ \E i \in DOMAIN detections : detections[i].clip_id = 2
    /\ \A i \in DOMAIN detections :
          detections[i].clip_id = 2 /\ detections[i].excluded = 1
    /\ clips[2].excluded = 0
    /\ clips[3].excluded = 0
    /\ included = {3}
    /\ compLog = << [images |-> <<DetectImage(3)>>, seed |-> NULL] >>

\* C14: rebuild_composite and rebuild_concatenation honour the clip's own
\* excluded flag: a clip whose flag is set contributes neither its detection
\* image to the rebuilt composite nor its sub-clips to the rebuilt video,
\* whether or not it has Detection rows.
ExcludedClipContributesNothing ==
    \A u \in get_detected_clips(clips, Night) :
        clips[u].excluded = 1 =>
            /\ RebuildCompositeReturned =>
                  /\ u \notin included
                  /\ CompositedImages \cap
                        { clips[u].detection_image,
                          MaskedImage(clips[u].detection_image) } = {}
            /\ RebuildConcatenationReturned =>
                  \A j \in DOMAIN concatLog :
                      Range(concatLog[j]) \cap Range(clips[u].detected_video) = {}

\* The stored value of a column of the night's row when the operation began.
ColumnAtStart(column) ==
    IF Night \in DOMAIN atStart.nights THEN atStart.nights[Night][column] ELSE NULL

\* C15: rebuild_composite leaves concat_video as it was before the call and
\* rebuild_concatenation leaves composite_image as it was, whatever the
\* night's row was, a missing row included (the column is then NULL).
RebuildKeepsTheOtherOutput ==
    /\ RebuildCompositeReturned =>
          /\ Night \in DOMAIN nights
          /\ nights[Night].concat_video = ColumnAtStart("concat_video")
    /\ RebuildConcatenationReturned =>
          /\ Night \in DOMAIN nights
          /\ nights[Night].composite_image = ColumnAtStart("composite_image")

CompositeRebuiltVideoKept ==
    /\ RebuildCompositeReturned
    /\ ColumnAtStart("concat_video") = VidOut
    /\ ColumnAtStart("composite_image") = NULL
    /\ nights[Night].composite_image = CompOut
    /\ nights[Night].concat_video = VidOut

SameRow(a, b) == a.clip_id = b.clip_id /\ a.line_index = b.line_index

\* C18: the store never holds two Detection rows for the same clip and group
\* index, and saving detections for a clip again replaces the row with the
\* same index: every step leaves each existing row in its place with its
\* clip and index, and adds rows only for pairs that had none.
DetectionRowsNeverDuplicated ==
    [][ /\ \A i, j \in DOMAIN detections' :
              SameRow(detections'[i], detections'[j]) => i = j
        /\ \A i \in DOMAIN detections :
              /\ i \in DOMAIN detections'
              /\ SameRow(detections'[i], detections[i])
              /\ detections'[i].excluded # detections[i].excluded =>
                    detections'[i].crop_image = detections[i].crop_image
      ]_vars

FirstRowReplacedSecondKept ==
    /\ Len(detections) = 2
    /\ \A i \in DOMAIN detections :
          /\ detections[i].clip_id = 2
          /\ detections[i].line_index = i - 1
    /\ detections[1].crop_image = GroupImage(2, 1)
    /\ detections[2].crop_image = GroupImage(2, 1)
    /\ detections[1].excluded = 1

\* The stored value of a column of the night's row now.
ColumnNow(column) ==
    IF Night \in DOMAIN nights THEN nights[Night][column] ELSE NULL

\* C17: execute never invokes the concatenator; its result and its
\* night-complete event carry no video path; the stored concat_video is at
\* every point of the run what it was before the run.
ExecuteLeavesVideoAlone ==
    pc \in {"exec_slot", "exec_clips", "exec_detect", "exec_done"} =>
        /\ concatLog = <<>>
        /\ ColumnNow("concat_video") = ColumnAtStart("concat_video")
        /\ \A j \in NightCompleteEvents : events[j].video_path = NULL
        /\ pc = "exec_done" =>
              /\ result.video_path = NULL
              /\ result.dry_run \/ Cardinality(NightCompleteEvents) = 1

ExecuteAfterConcatenationKeptVideo ==
    /\ pc = "exec_done"
    /\ ~result.dry_run
    /\ result.detections_found = 1
    /\ ColumnAtStart("concat_video") = VidOut
    /\ nights[Night].concat_video = VidOut
    /\ nights[Night].detection_count = 2

RunInProgress ==
    pc \in {"exec_slot", "exec_clips", "exec_detect", "re_clips", "re_detect"}

\* C16: without a store rebuild_composite, rebuild_concatenation and
\* rebuild_outputs raise at once: no compositor or concatenator call, nothing
\* written, no second attempt; execute and redetect_from_local without a store
\* run to completion.
RebuildNeedsStoreRunsDoNot ==
    /\ [][ (pc = "idle" /\ pc' \in {"rb_done", "rb_outputs", "rb_raised"}) =>
              /\ pc' = "rb_raised"
              /\ compLog' = <<>> /\ concatLog' = <<>>
              /\ nights' = nights /\ clips' = clips /\ compExists' = compExists
          ]_vars
    /\ [][ pc = "rb_raised" => pc' = "idle" ]_vars
    /\ [](clips = <<>> /\ nights = <<>> /\ detections = <<>>)
    /\ (RunInProgress ~> pc \in {"exec_done", "re_done"})

RebuildOutputsRaisedAfterRuns ==
    /\ pc = "rb_raised"
    /\ result.op = "rebuild_outputs"
    /\ runs = 3
    /\ localFiles # {}

\* C21: when the extractor raises for a detected clip, execute still marks the
\* clip detected, stores the list holding exactly the original clip's path as
\* its detected_video, saves the clip's Detection rows (one per detection
\* group, with the group's crop image), and goes on to the next clip or slot.
ExtractorFailureFallsBackToOriginal ==
    [][ ( /\ pc = "exec_detect"
          /\ Len(detLog') = Len(detLog) + 1
          /\ detLog'[Len(detLog')].kind = "hit"
          /\ ~detLog'[Len(detLog')].extracted )
        => LET u == current[1]
               rows == get_detections_by_clip(detections', u)
           IN  /\ clips'[u].status = DETECTED
               /\ clips'[u].detected_video = <<LocalPath[u]>>
               /\ {detections'[i].crop_image : i \in rows} = {GroupImage(u, 0)}
               /\ downloaded' = Tail(downloaded)
               /\ pc' \in {"exec_clips", "exec_slot"}
               /\ pc' = "exec_clips" <=> downloaded' # <<>>
      ]_vars

ExtractorFailedThenNextClipDetected ==
    /\ Len(detLog) = 2
    /\ detLog[1].kind = "hit" /\ ~detLog[1].extracted
    /\ detLog[2].kind = "hit" /\ detLog[2].extracted
    /\ clips[detLog[1].clip].detected_video = <<LocalPath[detLog[1].clip]>>
    /\ clips[detLog[2].clip].detected_video = <<MeteorClip(detLog[2].clip)>>
    /\ get_detections_by_clip(detections, detLog[1].clip) # {}

\* C27: after every completed operation that writes the night's row (execute,
\* redetect_from_local, rebuild_composite, rebuild_concatenation) its
\* detection_count equals the number of the night's clips stored with status
\* detected.
DetectionCountIsDetectedClipCount ==
    (ExecuteReturned \/ pc \in {"re_done", "rb_done"})
    => /\ Night \in DOMAIN nights
       /\ nights[Night].detection_count =
             Cardinality(get_detected_clips(clips, Night))

\* C28: when the compositor raises in execute, redetect_from_local or
\* rebuild_composite, or the concatenator in rebuild_concatenation, the
\* operation still returns, and the night's composite_image (concat_video for
\* the concatenator) is what it was before the operation.
ModuleErrorKeepsStoredOutput ==
    /\ ( /\ ExecuteReturned \/ pc = "re_done" \/ RebuildCompositeReturned
         /\ compLog # <<>>
         /\ result.composite_path = NULL )
       => ColumnNow("composite_image") = ColumnAtStart("composite_image")
    /\ ( /\ RebuildConcatenationReturned
         /\ concatLog # <<>>
         /\ result.video_path = NULL )
       => ColumnNow("concat_video") = ColumnAtStart("concat_video")

\* C29: after redetect_from_local has re-detected a clip, the clip's Detection
\* rows are exactly those of the new result: one row per group of a detected
\* result (here the first group), and no row at all after a result without
\* detection or a detector error.
RedetectReplacesDetectionRows ==
    pc \in {"re_clips", "re_detect", "re_done"}
    => \A i \in DOMAIN detLog :
          LET u == detLog[i].clip
              rows == get_detections_by_clip(detections, u)
          IN  IF detLog[i].kind = "hit"
              THEN {detections[k].crop_image : k \in rows} = {GroupImage(u, 0)}
              ELSE rows = {}

\* C30: each Detection row execute saves for a detected clip carries as its
\* group index the detector's index of the exposure group the row's crop
\* image shows, also when the result's groups do not start at 0 or are not
\* contiguous.
DetectionRowCarriesGroupIndex ==
    pc \in {"exec_slot", "exec_clips", "exec_detect", "exec_done"}
    => \A i \in DOMAIN detections :
          detections[i].crop_image =
              GroupImage(detections[i].clip_id, detections[i].line_index)

\* The lines logged for the groups from index g on.
RECURSIVE LinesFrom(_)
LinesFrom(g) ==
    IF g >= Len(foundLog) THEN 0 ELSE foundLog[g + 1] + LinesFrom(g + 1)

\* The processed groups for which _find_lines returned a line.
GroupsWithLines == {g \in 0 .. Len(foundLog) - 1 : foundLog[g + 1] > 0}

\* C22: detect returns detected = True iff at least one exposure group
\* yielded a surviving line; detection_groups is then the strictly increasing
\* list of exactly those groups' indices, crop_paths has one path per
\* detection group in the same order, and line_count is the number of lines
\* over those groups; otherwise detected = False, line_count = 0 and
\* detection_groups is empty.
DetectedIffSomeGroupHasLines ==
    pc = "det_done"
    => /\ result.detected <=> GroupsWithLines # {}
       /\ result.detected
          => /\ \A i, j \in DOMAIN result.detection_groups :
                   i < j => result.detection_groups[i] < result.detection_groups[j]
             /\ Range(result.detection_groups) = GroupsWithLines
             /\ DOMAIN result.crop_paths = DOMAIN result.detection_groups
             /\ \A i \in DOMAIN result.crop_paths :
                   result.crop_paths[i] =
                       GroupImage(DetectedClip, result.detection_groups[i])
             /\ result.line_count = LinesFrom(0)
       /\ ~result.detected
          => /\ result.line_count = 0
             /\ result.detection_groups = <<>>

LinesInSecondAndFourthGroup ==
    /\ pc = "det_done"
    /\ foundLog = <<0, 2, 0, 1>>
    /\ result.detected
    /\ result.detection_groups = <<1, 3>>
    /\ result.line_count = 3
    /\ Len(result.crop_paths) = 2

\* The frame-sized locals of the loop besides group_gray: frame,
\* group_color_comp, diff, diff_composite and color_composite.
LoopBuffers == 5

\* C23: while detect streams a clip, the frame-sized buffers it holds are at
\* most frames_per_group plus a constant that does not depend on the number
\* of groups of the clip: the loop's own locals.
BuffersBoundedByGroupSize ==
    pc \in {"det_read", "det_diff", "det_find", "det_finish"}
    => buffers_held <= frames_per_group + LoopBuffers

\* The callers inside a with FileLock block.
InBlock == {a \in LockUsers : at[a] = "block"}

\* Caller a makes its attempt to enter the block in this step.
Attempts(a) ==
    /\ at[a] = (IF a = "scheduler" THEN "sync" ELSE "idle")
    /\ at'[a] # at[a]
    /\ a = "scheduler" \/ at'[a] # "idle"

\* C24: at most one caller is inside a FileLock block for the lock path at
\* any time; an attempt while the lock is held fails at once with LockError
\* (the caller is not made to wait); the lock is released when the holder
\* leaves the block, also when the body raised, so that an attempt made while
\* nobody is in the block succeeds.
FileLockIsExclusiveAndReleased ==
    /\ [](Cardinality(InBlock) <= 1)
    /\ [](flock = NULL <=> InBlock = {})
    /\ [](\A a \in LockUsers : (at[a] = "block") = fp[a])
    /\ [](at["scheduler"] = "sync" => ENABLED ExecutePipelineSyncEnter)
    /\ [](\A c \in CliCommands : at[c] = "idle" => ENABLED CliEnter(c))
    /\ [][ \A a \in LockUsers :
             Attempts(a) =>
               IF InBlock # {}
               THEN /\ at'[a] # "block"
                    /\ outcome'[a] \in {"lock_error", "skipped_lock"}
                    /\ flock' = flock
               ELSE at'[a] = "block" /\ flock' = a
         ]_vars

SecondAttemptFailedLaterOneSucceeded ==
    /\ outcome["cli_run"] = "raised"
    /\ outcome["cli_redetect"] = "lock_error"
    /\ at["cli_redetect"] = "block"
    /\ flock = "cli_redetect"

\* C25: when the scheduler's run is attempted while another run holds the
\* lock, _execute_pipeline_sync neither waits nor executes the pipeline: it
\* returns "skipped_lock"; no exception reaches the loop, the stored result is
\* "skipped_lock" and not "error", and the loop goes on to its next cycle.
SchedulerSkipsWhenLocked ==
    /\ [](at["scheduler"] = "sync" => ENABLED ExecutePipelineSyncEnter)
    /\ [][ ( /\ at["scheduler"] = "sync"
             /\ at'["scheduler"] # "sync"
             /\ flock # NULL )
           => /\ at'["scheduler"] = "back"
              /\ outcome'["scheduler"] = "skipped_lock"
              /\ "scheduler" \notin Writers'
              /\ flock' = flock
         ]_vars
    /\ [][ ( /\ at["scheduler"] = "back"
             /\ at'["scheduler"] # "back"
             /\ outcome["scheduler"] = "skipped_lock" )
           => /\ scheduler_status'.last_run_result = "skipped_lock"
              /\ ~scheduler_status'.pipeline_running
              /\ at'["scheduler"] = "idle"
         ]_vars
    /\ [](at["scheduler"] = "idle" => ENABLED RunPipeline)

SkippedCycleThenRunningCycle ==
    /\ scheduler_status.last_run_result = "skipped_lock"
    /\ at["scheduler"] = "block"
    /\ outcome["cli_run"] = "completed"

\* C26: at any time at most one pipeline operation (execute,
\* redetect_from_local, rebuild_composite, rebuild_concatenation) is writing
\* to the store, however it was started: by the scheduler, by a command or by
\* a background task of the dashboard.
SingleWriter == Cardinality(Writers) <= 1

\* The processed-ness of a status: pending, then downloaded, then the
\* terminal ones.
Rank(status) ==
    CASE status = PENDING -> 0
      [] status = DOWNLOADED -> 1
      [] status \in Terminal -> 2

\* C31: upsert_clip never lowers a stored clip's processed-ness: for every
\* stored status and every payload status, the default (pending) included,
\* the status after the call ranks at least as high as the one before it.
UpsertClipNeverLowersRank ==
    (last.op = "upsert_clip" /\ last.before # <<>>)
    => Rank(clips[last.url].status) >= Rank(last.before[1].status)

\* C32: for every valid start_time and end_time the slot list is in
\* chronological order, a window crossing midnight lists the evening hours
\* under the previous calendar day before the morning hours under the
\* observation date, and every (hour, minute) that _clip_in_range accepts has
\* its hour in the slot list.
SlotsChronologicalAndCoverAccepted ==
    pc = "slots_built" =>
        /\ \A i \in 1 .. Len(time_slots) - 1 :
              SlotTime(time_slots[i]) < SlotTime(time_slots[i + 1])
        /\ \A i \in DOMAIN time_slots :
              IF Minutes(schedule.start_time) >= Minutes(schedule.end_time)
              THEN \/ /\ time_slots[i][1] = PrevDay
                      /\ time_slots[i][2] >= schedule.start_time[1]
                   \/ /\ time_slots[i][1] = Night
                      /\ time_slots[i][2] <= schedule.end_time[1]
              ELSE time_slots[i][1] = Night
        /\ \A hour \in Hours, minute \in FileMinutes :
              clip_in_range(hour, minute)
              => \E i \in DOMAIN time_slots : time_slots[i][2] = hour

\* A window crossing midnight and ending inside an hour has its slots built.
MidnightWindowEndingInsideHourBuilt ==
    /\ pc = "slots_built"
    /\ schedule = [start_time |-> <<22, 30>>, end_time |-> <<0, 30>>]
    /\ time_slots = <<<<PrevDay, 22>>, <<PrevDay, 23>>, <<Night, 0>>>>

\* C33: at most one scheduler loop task exists, and it is the one _task names:
\* a start while a task exists creates none, and once stop has returned _task
\* is None and status.running is false.
AtMostOneLoopTask ==
    /\ Cardinality(DOMAIN tasks) <= 1
    /\ DOMAIN tasks \subseteq Range(scheduler.task)
    /\ scheduler.stop_call = "returned"
       => scheduler.task = <<>> /\ ~scheduler_status.running

\* After a start, a second start, a stop that returned and a third start, the
\* task of the third start is the only one.
RestartedAfterDoubleStartAndStop ==
    /\ scheduler.starts = 3
    /\ scheduler.task = <<3>>
    /\ DOMAIN tasks = {3}
    /\ scheduler_status.running

\* C34: whatever the time of day, the window and the interval of a cycle, a
\* time inside the observation window is inside the active window.
ObservationWindowInsideActiveWindow ==
    \A t \in DOMAIN tasks :
        \A c \in Range(tasks[t].cycle) :
            is_in_observation_window(c.now, c.start_time, c.end_time)
            => is_in_active_window(c.now, c.start_time, c.end_time, c.interval)

\* C36: the window from which a scheduler-started run builds its slots and
\* filters its clips is the window the scheduler resolved in that cycle.
ScheduledRunUsesResolvedWindow ==
    \A t \in DOMAIN tasks :
        tasks[t].at = "in_pipeline"
        => /\ schedule.start_time = tasks[t].cycle[1].start_time
           /\ schedule.end_time = tasks[t].cycle[1].end_time

\* C37: the hidden flag of a night is changed by toggle_hidden only: after
\* toggle_hidden has set it on a stored row, the writes of execute,
\* redetect_from_local, rebuild_composite and rebuild_concatenation leave it.
HiddenChangedOnlyByToggleHidden ==
    (last.op = "toggle_hidden" /\ last.before # <<>>)
    => nights[Night].hidden = last.hidden

\* C35: for the night at most one re-detection background task exists at a
\* time, whatever the interleaving of the requests: a request that finds the
\* status running answers 409 and adds no task.
AtMostOneRedetectTask ==
    /\ Cardinality(DOMAIN background_tasks) <= 1
    /\ \A r \in DOMAIN requests :
          requests[r].response = "started" => requests[r].current # "running"

\* C40: download_clip returns a path only for a file whose download
\* completed, also when an earlier attempt left a part of the file behind.
ReturnedFileIsComplete ==
    download.returned # <<>> => dest_files[download.returned[1]] = "complete"

\* Minutes from the previous day's midnight to the start of a clip.
NightTime(u) == SlotTime(<<ClipDay[u], ClipHour[u]>>) * 60 + ClipMinute[u]

\* C39: rebuild_concatenation hands the sub-clips to the concatenator in the
\* chronological order of the night: the sub-clips of a clip recorded earlier
\* in the night, the previous evening before the morning, come before those of
\* a clip recorded later.
ConcatenationInNightOrder ==
    (pc = "rb_done" /\ result.op = "rebuild_concatenation" /\ concatLog # <<>>) =>
        LET all_clip_paths == concatLog[Len(concatLog)]
        IN  \A u, v \in get_included_detected_clips(clips, Night) :
                NightTime(u) < NightTime(v) =>
                    \A i, j \in DOMAIN all_clip_paths :
                        (/\ all_clip_paths[i] \in Range(clips[u].detected_video)
                         /\ all_clip_paths[j] \in Range(clips[v].detected_video))
                        => i < j

\* C38: after a completed execute or redetect_from_local run a composite_image
\* that is not null names a composite holding the detection image of every
\* clip stored as detected for the night.  A composite written without a seed
\* holds no more than the images handed to the compositor in that run.
CompositeHoldsEveryDetectedImage ==
    (/\ pc \in {"exec_done", "re_done"}
     /\ Night \in DOMAIN nights
     /\ nights[Night].composite_image # NULL
     /\ compLog # <<>>
     /\ compLog[Len(compLog)].seed = NULL)
    => \A u \in get_detected_clips(clips, Night) :
           clips[u].detection_image \in Range(compLog[Len(compLog)].images)

====
